---------------------------- MODULE Spec2Model ----------------------------
(***************************************************************************)
(* A model of the export job of maya-usd, UsdMaya_WriteJob                 *)
(* (lib/mayaUsd/fileio/jobs/writeJob.cpp): Write drives _BeginWriting, one *)
(* _WriteFrame per time sample and _FinishWriting.  The job's fields, the  *)
(* in-memory layer, the host's state (render layer, current time), the     *)
(* file system and an event log are the state; the source scene, the job   *)
(* arguments and the outcomes of the external collaborators (writers,      *)
(* chasers, packaging, the interrupt flag) are fixed per behaviour in cfg. *)
(***************************************************************************)
EXTENDS Integers, Sequences, FiniteSets, TLC

VARIABLES
    cfg,              \* job arguments, source scene and collaborator outcomes
    pc,               \* position in Write: "begin", "frames", "finish", "done"
    result,           \* what Write returned: "none", "success", "failure"
    frameIdx,         \* time samples consumed by the loop of Write
    oldCurTime,       \* Write's local oldCurTime
    defaultPrimArg,   \* mJobCtx.mArgs.defaultPrim
    overridePath,     \* mJobCtx.mArgs.usdModelRootOverridePath
    fileName,         \* _fileName
    packageName,      \* _packageName
    stageOpen,        \* mJobCtx.mStage is a live stage
    prims,            \* the layer's prims: path -> [type, active, refs, payload]
    rootOrder,        \* the names of the root prims, in the layer's order
    samples,          \* authored values: <<path, time>>
    layerDefaultPrim, \* the root layer's defaultPrim metadata
    variantSet,       \* the modelingVariant set of the variant root
    writers,          \* mJobCtx.mMayaPrimWriterList
    dagToUsd,         \* mDagPathToUsdPathMap
    usdToDag,         \* mUsdPathToDagPathMap
    chasers,          \* mChasers
    extras,           \* _extrasPrimsPaths
    renderLayerObjs,  \* mRenderLayerObjs
    savedLayerName,   \* mCurrentRenderLayerName
    hostLayer,        \* the host's current render layer
    hostTime,         \* the host's current time
    files,            \* the file system: file name -> persisted content
    log,              \* the calls made so far, in order
    run,              \* 1 for the first job, 2 for the re-run
    firstOutput,      \* what the first job left persisted
    edit              \* a call of UsdTransform3dMatrixOpHandler::editTransform3d

jobVars == << cfg, pc, result, frameIdx, oldCurTime, defaultPrimArg, overridePath,
           fileName, packageName, stageOpen, prims, rootOrder, samples,
           layerDefaultPrim,
           variantSet, writers, dagToUsd, usdToDag, chasers, extras,
           renderLayerObjs, savedLayerName, hostLayer, hostTime, files, log,
           run, firstOutput >>

vars == << jobVars, edit >>

---------------------------------------------------------------------------
(* Bounds of the model.                                                    *)

\* longest time-sample list
MaxSamples == 2
\* how many chasers are configured at most
MaxChasers == 2
\* how many nested empty groups the scene's chain C|G1|..|Gn has at most
MaxChain == 2
\* how many render layers exist beside the default render layer, at most
MaxLayers == 2

---------------------------------------------------------------------------
(* Generic helpers on sequences and maps.                                  *)

EmptyMap == [x \in {} |-> <<>>]

Front(s) == SubSeq(s, 1, Len(s) - 1)

Last(s) == s[Len(s)]

IsPrefix(p, q) == Len(p) <= Len(q) /\ SubSeq(q, 1, Len(p)) = p

IsProperPrefix(p, q) == Len(p) < Len(q) /\ SubSeq(q, 1, Len(p)) = p

Range(s) == {s[i] : i \in DOMAIN s}

\* std::map::insert of one pair: an existing key keeps its value
MapInsert(m, k, v) == IF k \in DOMAIN m THEN m ELSE m @@ (k :> v)

\* operator[] assignment
MapSet(m, k, v) == [x \in DOMAIN m \cup {k} |-> IF x = k THEN v ELSE m[x]]

---------------------------------------------------------------------------
(* The source scene: DAG paths are sequences of node names, <<>> is the    *)
(* world root.  The scene is                                               *)
(*     |A  |A|B  |A|B|BShape (mesh)  |A|ns:B                               *)
(*     |C  |C|G1 .. |C|G1|..|Gn      and, when leafMesh, a mesh M below Gn *)

World == <<>>

Chain(i) == [j \in 1..(i + 1) |-> IF j = 1 THEN "C" ELSE "G" \o ToString(j - 1)]

ChainMesh(c) == Append(Chain(c.chainLen), "M")

DagOrder(c) ==
    << World, <<"A">>, <<"A", "B">>, <<"A", "B", "BShape">>, <<"A", "ns:B">> >>
    \o [i \in 1..(c.chainLen + 1) |-> Chain(i - 1)]
    \o (IF c.leafMesh THEN << ChainMesh(c) >> ELSE << >>)

SceneNodes(c) == Range(DagOrder(c))

IsShape(n) == n # World /\ Last(n) \in {"BShape", "M"}

Children(c, n) == {m \in SceneNodes(c) : Len(m) = Len(n) + 1 /\ IsPrefix(n, m)}

\* MDagPath::extendToShape: a transform with exactly one shape below it
\* becomes that shape; any other path is left as it is
ExtendedTo(n, shapes) ==
    IF ~IsShape(n) /\ Cardinality(shapes) = 1
    THEN CHOOSE m \in shapes : TRUE
    ELSE n

ExtendToShape(c, n) == ExtendedTo(n, {m \in Children(c, n) : IsShape(m)})

\* UsdMayaUtil::isAncestorDescendentRelationship
isAncestorDescendentRelationship(p1, p2) ==
    IsProperPrefix(p1, p2) \/ IsProperPrefix(p2, p1)

\* UsdMayaUtil::MayaNodeNameToPrimName: the namespace is stripped, or its
\* ':' becomes '_'
MayaNodeNameToPrimName(name, stripNamespaces) ==
    IF name = "ns:B" THEN (IF stripNamespaces THEN "B" ELSE "ns_B")
    ELSE name

\* a transform and its single shape are written to one prim when merging
IsMergedShape(c, n) ==
    /\ c.mergeTransformAndShape
    /\ IsShape(n)
    /\ ExtendToShape(c, Front(n)) = n

\* the prim names of a DAG path's nodes
PrimNames(dag, stripNamespaces) ==
    [i \in 1..Len(dag) |-> MayaNodeNameToPrimName(dag[i], stripNamespaces)]

\* the override root path, when set, replaces the root of the path
WithRootOverride(override, names) ==
    IF override # <<>> /\ Len(names) > 0
    THEN override \o SubSeq(names, 2, Len(names))
    ELSE names

\* a root prim, when set, is the parent of every written path
WithRootPrim(rootPrim, names) ==
    IF rootPrim # "" /\ Len(names) > 0 THEN << rootPrim >> \o names ELSE names

\* UsdMayaWriteJobContext::ConvertDagToUsdPath
ConvertDagToUsdPath(c, override, n) ==
    WithRootOverride(override,
        WithRootPrim(c.rootPrim,
            PrimNames(IF IsMergedShape(c, n) THEN Front(n) ELSE n, c.stripNamespaces)))

---------------------------------------------------------------------------
(* File names: [anon, dir, parts], the name being dir/parts[1].parts[2]... *)
(* and anon marking an anonymous layer identifier.                         *)

NoFile == [anon |-> FALSE, dir |-> "", parts |-> << >>]

\* TfGetExtension: the text after the last '.', empty when there is none
TfGetExtension(f) == IF Len(f.parts) >= 2 THEN Last(f.parts) ELSE ""

\* TfStringPrintf("%s.%s", fileName, ext)
WithExtension(f, ext) == [f EXCEPT !.parts = Append(@, ext)]

UsdFileExtensionDefault == "usd"

UsdFileExtensionASCII == "usda"

UsdFileExtensionCrate == "usdc"

UsdFileExtensionPackage == "usdz"

\* a fallback that would not look at the compatibility profile
DefaultExtensionAlways(compatibilityMode) == UsdFileExtensionDefault

_GetFallbackExtension(compatibilityMode) ==
    IF compatibilityMode = "appleArKit"
    THEN UsdFileExtensionPackage
    ELSE UsdFileExtensionDefault

\* lines 429-442 of _BeginWriting: does the name keep its form
HasProperExtension(f) ==
    \/ f.anon
    \/ TfGetExtension(f) = UsdFileExtensionDefault
    \/ TfGetExtension(f) = UsdFileExtensionASCII
    \/ TfGetExtension(f) = UsdFileExtensionCrate
    \/ TfGetExtension(f) = UsdFileExtensionPackage

\* the local fileExt of _BeginWriting after line 443
EffectiveExtension(c, f) ==
    IF HasProperExtension(f)
    THEN TfGetExtension(f)
    ELSE _GetFallbackExtension(c.compatibility)

\* the local fileNameWithExt of _BeginWriting after line 443
FileNameWithExt(c, f) ==
    IF HasProperExtension(f)
    THEN f
    ELSE WithExtension(f, _GetFallbackExtension(c.compatibility))

\* the universe of UUIDs MUuid::generate draws from
UUIDs == {"u1", "u2"}

_MakeTmpStageName(dir, uuid) ==
    [anon |-> FALSE, dir |-> dir, parts |-> << "tmp-" \o uuid, UsdFileExtensionCrate >>]

---------------------------------------------------------------------------
(* The log and the layer.                                                  *)

\* UsdTimeCode::Default()
DefaultTime == 0

NoOne == << >>

Ev(op, who, t) == [op |-> op, who |-> who, t |-> t]

Logged(s, op, who, t) == [s EXCEPT !.log = Append(@, Ev(op, who, t))]

NoVariantSet == [exists |-> FALSE, variants |-> << >>, selection |-> "",
                 deactivated |-> EmptyMap]

EmptyLayer == [prims |-> EmptyMap, rootOrder |-> << >>, samples |-> {},
               defaultPrim |-> "", variantSet |-> NoVariantSet]

\* what SdfLayer::Save persists of the state s
LayerContent(s) ==
    [prims |-> s.prims, rootOrder |-> s.rootOrder, samples |-> s.samples,
     defaultPrim |-> s.layerDefaultPrim, variantSet |-> s.variantSet]

NoRef == << >>

NewPrim(type) == [type |-> type, active |-> TRUE, refs |-> NoRef, payload |-> FALSE]

\* UsdStage::DefinePrim in the state s: the prim gets the type, missing
\* ancestors are defined without a type, a new root prim is the last child
\* of the pseudo-root
DefinePrim(s, path, type) ==
    LET missing == {SubSeq(path, 1, k) : k \in 1..(Len(path) - 1)} \ DOMAIN s.prims
        withAnc == s.prims @@ [q \in missing |-> NewPrim("")]
        defined == IF path \in DOMAIN withAnc
                   THEN [withAnc EXCEPT ![path].type = IF type = "" THEN @ ELSE type]
                   ELSE withAnc @@ (path :> NewPrim(type))
    IN  [s EXCEPT !.prims = defined,
                  !.rootOrder = IF << path[1] >> \in DOMAIN s.prims
                                THEN @
                                ELSE Append(@, path[1])]

---------------------------------------------------------------------------
(* _BeginWriting.  A job state s is the record of the job's fields, the    *)
(* layer, the host, the files and the log, with s.ok FALSE once the        *)
(* function has returned false; each part below is one stretch of lines.   *)

Fail(s) == [s EXCEPT !.ok = FALSE]

\* run part F unless the function has already returned
Then(s, F(_)) == IF s.ok THEN F(s) ELSE s

\* a job that would ask the scene before it looks at the export roots
SceneQueryFirst(c) ==
    IF c.rootPrim # "" THEN << c.rootPrim >>
    ELSE IF Len(c.sceneCandidates) > 0 THEN c.sceneCandidates
    ELSE SelectSeq(c.exportRoots, LAMBDA r : r # "")

\* GetExportDefaultPrimCandidates (lines 329-381)
GetExportDefaultPrimCandidates(c) ==
    LET given == SelectSeq(c.exportRoots, LAMBDA r : r # "")
    IN  IF c.rootPrim # "" THEN << c.rootPrim >>
        ELSE IF Len(given) > 0 THEN given
        ELSE c.sceneCandidates

\* lines 392-404: the default prim is resolved and made a prim name
BW_DefaultPrim(c, s) ==
    LET roots    == GetExportDefaultPrimCandidates(c)
        resolved == IF ~c.legacyMaterialScope /\ s.defaultPrimArg = "" /\ Len(roots) > 0
                    THEN roots[1]
                    ELSE s.defaultPrimArg
    IN  [s EXCEPT !.defaultPrimArg =
            IF resolved # ""
            THEN MayaNodeNameToPrimName(resolved, c.stripNamespaces)
            ELSE resolved]

\* a job that would not compare its roots
RootsNeverOverlap(c) == FALSE

\* the test of lines 410-425: some pair of configured roots overlaps
RootsOverlap(c) ==
    \E p1 \in c.dagPaths : \E p2 \in c.dagPaths :
        p1 # p2 /\ isAncestorDescendentRelationship(p1, p2)

\* lines 406-426
BW_CheckRoots(c, s) == IF RootsOverlap(c) THEN Fail(s) ELSE s

\* lines 453-455: the layer written to when the destination is a package
PackageStageName(c, uuid) == _MakeTmpStageName(FileNameWithExt(c, c.dest).dir, uuid)

\* a job that would make the temporary name before it looks at append
TmpNameFirst(c, s, uuid) ==
    IF EffectiveExtension(c, c.dest) = UsdFileExtensionPackage
    THEN IF c.append
         THEN Fail([Logged(s, "MakeTmpStageName", NoOne, DefaultTime)
                       EXCEPT !.fileName = PackageStageName(c, uuid)])
         ELSE [Logged(s, "MakeTmpStageName", NoOne, DefaultTime)
                  EXCEPT !.fileName = PackageStageName(c, uuid),
                         !.packageName = FileNameWithExt(c, c.dest)]
    ELSE [s EXCEPT !.fileName = FileNameWithExt(c, c.dest), !.packageName = NoFile]

\* lines 428-469: the extension dispatch
BW_FileName(c, s, uuid) ==
    IF EffectiveExtension(c, c.dest) = UsdFileExtensionPackage
    THEN IF c.append
         THEN Fail(s)
         ELSE LET tmp == PackageStageName(c, uuid)
                  s1  == [Logged(s, "MakeTmpStageName", NoOne, DefaultTime)
                             EXCEPT !.fileName = tmp]
              IN  IF tmp \in DOMAIN s1.files
                  THEN Fail(s1)
                  ELSE [s1 EXCEPT !.packageName = FileNameWithExt(c, c.dest)]
    ELSE [s EXCEPT !.fileName = FileNameWithExt(c, c.dest), !.packageName = NoFile]

BaseModelPath == << "_BaseModel_" >>

\* a job that would list the render layers in every mode
LayersAlwaysListed(c, s) ==
    IF Len(c.layers) > 1
    THEN IF c.rootMap
         THEN Fail([s EXCEPT !.renderLayerObjs = c.layers])
         ELSE [s EXCEPT !.renderLayerObjs = c.layers, !.overridePath = BaseModelPath]
    ELSE [s EXCEPT !.renderLayerObjs = c.layers]

\* a job that would take export roots together with modeling variants
RootMapAllowed(c, s) ==
    IF c.renderLayerMode = "modelingVariant"
    THEN IF Len(c.layers) > 1
         THEN [s EXCEPT !.renderLayerObjs = c.layers, !.overridePath = BaseModelPath]
         ELSE [s EXCEPT !.renderLayerObjs = c.layers]
    ELSE s

\* lines 471-484: the render layers are listed in modelingVariant mode
BW_RenderLayerObjs(c, s) ==
    IF c.renderLayerMode = "modelingVariant"
    THEN LET s1 == [s EXCEPT !.renderLayerObjs = c.layers]
         IN  IF Len(c.layers) > 1
             THEN IF c.rootMap
                  THEN Fail(s1)
                  ELSE [s1 EXCEPT !.overridePath = BaseModelPath]
             ELSE s1
    ELSE s

\* UsdMayaWriteJobContext::_OpenFile: the layer is created (and written as
\* an empty file unless anonymous), or an existing one is opened to append
OpenFile(c, s) ==
    LET s1 == Logged(s, "OpenFile", NoOne, DefaultTime)
    IN  IF c.fault.phase = "open" THEN Fail(s1)
        ELSE IF c.append
        THEN IF s1.fileName \in DOMAIN s1.files
             THEN LET old == s1.files[s1.fileName]
                  IN  [s1 EXCEPT !.stageOpen = TRUE, !.prims = old.prims,
                                 !.rootOrder = old.rootOrder,
                                 !.samples = old.samples,
                                 !.layerDefaultPrim = old.defaultPrim,
                                 !.variantSet = old.variantSet]
             ELSE Fail(s1)
        ELSE [s1 EXCEPT !.stageOpen = TRUE,
                        !.files = IF s1.fileName.anon THEN @
                                  ELSE MapSet(@, s1.fileName, EmptyLayer)]

\* lines 491-506: the time range, the up-axis and units changer
BW_AfterOpen(s) == Logged(s, "ChangeUpAxisAndUnits", NoOne, DefaultTime)

\* lines 486-506
BW_Open(c, s) == Then(OpenFile(c, s), BW_AfterOpen)

DefaultRenderLayer == "defaultRenderLayer"

\* lines 520-534: the current layer is remembered, the default one made current
BW_SwitchLayer(c, s) ==
    LET s1 == [s EXCEPT !.savedLayerName = s.hostLayer]
    IN  IF c.renderLayerMode # "currentLayer" /\ s.hostLayer # DefaultRenderLayer
        THEN [Logged(s1, "SetRenderLayer", << DefaultRenderLayer >>, DefaultTime)
                 EXCEPT !.hostLayer = DefaultRenderLayer]
        ELSE s1

---------------------------------------------------------------------------
(* The traversal of lines 536-652.                                         *)

\* lines 541-584: the configured roots
ArgDagPaths(c) == c.dagPaths

\* lines 541-584: every proper ancestor of a configured root, the world included
ArgDagPathParents(c) ==
    {p \in SceneNodes(c) : \E r \in c.dagPaths : IsProperPrefix(p, r)}

\* the default-constructed curLeafDagPath
NoLeaf == << "" >>

\* a traversal that would take every node for a child of the last root
AlwaysBelowLeaf(node, leaf) == TRUE

\* MFnDagNode(node).hasParent(leaf.node()) of line 614
HasParent(node, leaf) == leaf # NoLeaf /\ IsProperPrefix(leaf, node)

\* UsdMayaWriteJobContext::_NeedToTraverse
NeedToTraverse(c, node) == node \notin c.noTraverse

\* UsdMayaWriteJobContext::CreatePrimWriter produces a writer
HasWriter(c, node) == node # World /\ node \notin c.noWriter

\* the type of the prim a node's writer defines
PrimTypeOf(node) == IF IsShape(node) THEN "Mesh" ELSE "Xform"

\* a job that would accept every output path
NamesNeverClash(c, m, path, dagPath) == [ok |-> TRUE, map |-> m]

\* _CheckNameClashes (lines 1166-1196): [ok, map], map being
\* mUsdPathToDagPathMap afterwards
_CheckNameClashes(c, m, path, dagPath) ==
    IF ~c.stripNamespaces THEN [ok |-> TRUE, map |-> m]
    ELSE IF path \in DOMAIN m
    THEN IF /\ c.mergeTransformAndShape
            /\ ExtendToShape(c, m[path]) = ExtendToShape(c, dagPath)
         THEN [ok |-> TRUE, map |-> m]
         ELSE [ok |-> FALSE, map |-> m]
    ELSE [ok |-> TRUE, map |-> MapSet(m, path, dagPath)]

\* lines 637-643: the default values, the path mapping, the model kind
WriteDefaultValues(s, node, path) ==
    Logged([Logged(s, "Write", node, DefaultTime)
               EXCEPT !.samples = @ \cup {<< path, DefaultTime >>},
                      !.dagToUsd = MapInsert(@, node, path)],
           "OnWritePrim", node, DefaultTime)

\* MapDagPathToSdfPath (lines 77-83): the path of a node, the empty path
\* for a node that is not in the map
MapDagPathToSdfPath(s, dagPath) ==
    IF dagPath \in DOMAIN s.dagToUsd THEN s.dagToUsd[dagPath] ELSE << >>

\* lines 633-644, chk being what _CheckNameClashes returned
WriteChecked(s, node, path, chk) ==
    IF chk.ok
    THEN WriteDefaultValues([s EXCEPT !.usdToDag = chk.map], node, path)
    ELSE Fail(s)

\* a traversal that would write the default values before it checks the path
WriteThenCheck(c, s, node, path) ==
    WriteChecked(Logged([Logged(s, "Write", node, DefaultTime)
                            EXCEPT !.samples = @ \cup {<< path, DefaultTime >>}],
                        "CheckNameClashes", node, DefaultTime),
                 node, path, _CheckNameClashes(c, s.usdToDag, path, node))

\* lines 632-644: a writer with a valid prim
WriteDefault(c, s, node, path) ==
    WriteChecked(Logged(s, "CheckNameClashes", node, DefaultTime), node, path,
                 _CheckNameClashes(c, s.usdToDag, path, node))

\* primWriter->GetUsdPrim() is a valid prim
HasValidPrim(c, node) == node \notin c.invalidPrim

\* a job that would not keep a writer without a valid prim
InvalidWriterDropped(c, s, node, path) ==
    IF HasValidPrim(c, node)
    THEN WriteDefault(c,
             [DefinePrim(s, path, PrimTypeOf(node)) EXCEPT !.writers = Append(@, node)],
             node, path)
    ELSE s

\* lines 626-644: the writer is made (defining its prim), recorded, and
\* writes its default values
WriterWritten(c, s, node, path) ==
    IF HasValidPrim(c, node)
    THEN WriteDefault(c,
             [DefinePrim(s, path, PrimTypeOf(node)) EXCEPT !.writers = Append(@, node)],
             node, path)
    ELSE [s EXCEPT !.writers = Append(@, node)]

\* lines 646-648, s being the job after the writer
VisitDone(c, ts, node, s) ==
    [ts EXCEPT !.s = s,
               !.pruned = IF s.ok /\ node \in c.pruneChildren THEN @ \cup {node} ELSE @]

\* a traversal that would not go below a node without a writer
NoWriterPrunes(c, ts, node) ==
    IF HasWriter(c, node)
    THEN VisitDone(c, ts, node,
             WriterWritten(c, Logged(ts.s, "CreatePrimWriter", node, DefaultTime), node,
                           ConvertDagToUsdPath(c, ts.s.overridePath, node)))
    ELSE [ts EXCEPT !.s = Logged(@, "CreatePrimWriter", node, DefaultTime),
                    !.pruned = @ \cup {node}]

\* lines 625-650: the writer of an in-scope node; ts.pruned are the nodes
\* itDag.prune() was called on
VisitNode(c, ts, node) ==
    IF HasWriter(c, node)
    THEN VisitDone(c, ts, node,
             WriterWritten(c, Logged(ts.s, "CreatePrimWriter", node, DefaultTime), node,
                           ConvertDagToUsdPath(c, ts.s.overridePath, node)))
    ELSE [ts EXCEPT !.s = Logged(@, "CreatePrimWriter", node, DefaultTime)]

\* a traversal that would not ask whether a node is to be traversed
NeedToTraverseIgnored(c, ts, node) == VisitNode(c, ts, node)

\* lines 621-650 for a node that is in scope
TraverseInScope(c, ts, node) ==
    IF ~NeedToTraverse(c, node) /\ Len(node) > 0
    THEN [ts EXCEPT !.pruned = @ \cup {node}]
    ELSE VisitNode(c, ts, node)

\* lines 606-619, isParent and isArg telling whether the node is in
\* argDagPathParents and in argDagPaths
TraverseScoped(c, ts, node, isParent, isArg) ==
    IF isParent THEN TraverseInScope(c, ts, node)
    ELSE IF isArg THEN TraverseInScope(c, [ts EXCEPT !.curLeaf = node], node)
    ELSE IF ~HasParent(node, ts.curLeaf) THEN [ts EXCEPT !.pruned = @ \cup {node}]
    ELSE TraverseInScope(c, ts, node)

\* one iteration of the loop of lines 601-652; the iterator skips what is
\* below a pruned node
TraverseNode(c, ts, node) ==
    IF \E p \in ts.pruned : IsProperPrefix(p, node) THEN ts
    ELSE TraverseScoped(c, ts, node,
                        node \in ArgDagPathParents(c), node \in ArgDagPaths(c))

RECURSIVE TraverseFrom(_, _, _)
TraverseFrom(c, ts, i) ==
    IF i > Len(DagOrder(c)) \/ ~ts.s.ok THEN ts
    ELSE TraverseFrom(c, TraverseNode(c, ts, DagOrder(c)[i]), i + 1)

\* lines 597-652
BW_Traverse(c, s) ==
    TraverseFrom(c, [s |-> s, curLeaf |-> NoLeaf, pruned |-> {}], 1).s

\* a job that would go on with an empty map
RootMapUnchecked(c, s) == s

\* lines 654-663
BW_RootMapCheck(c, s) ==
    IF c.rootMap /\ DOMAIN s.dagToUsd = {} THEN Fail(s) ELSE s

\* a job that would not look at what the post-processing and the model
\* hierarchy return
PostProcessUnchecked(c, s) ==
    Logged(Logged(Logged(s, "ExportShadingEngines", NoOne, DefaultTime),
                  "PostProcess", NoOne, DefaultTime),
           "MakeModelHierarchy", NoOne, DefaultTime)

\* lines 665-679: shading export, post-processing, model hierarchy
BW_PostProcess(c, s) ==
    LET s1 == Logged(s, "ExportShadingEngines", NoOne, DefaultTime)
        s2 == Logged(s1, "PostProcess", NoOne, DefaultTime)
        s3 == Logged(s2, "MakeModelHierarchy", NoOne, DefaultTime)
    IN  IF c.fault.phase = "PostProcess" THEN Fail(s2)
        ELSE IF c.fault.phase = "MakeModelHierarchy" THEN Fail(s3)
        ELSE s3

\* UsdMayaExportChaserRegistry::Create gives a chaser for the name
ChaserCreated(c, name) == name \notin c.noCreate

\* a chaser's hook returns false
HookFails(c, hook, name, t) ==
    c.fault.phase = hook /\ c.fault.who = name /\ c.fault.t = t

RECURSIVE ChasersRequired(_, _, _)
\* a job that would give up at the first chaser that cannot be created
ChasersRequired(c, s, i) ==
    IF i > Len(c.chaserNames) THEN s
    ELSE IF ChaserCreated(c, c.chaserNames[i])
    THEN ChasersRequired(c,
             [Logged(s, "CreateChaser", << c.chaserNames[i] >>, DefaultTime)
                 EXCEPT !.chasers = Append(@, c.chaserNames[i])],
             i + 1)
    ELSE Fail(Logged(s, "CreateChaser", << c.chaserNames[i] >>, DefaultTime))

RECURSIVE CreateChasers(_, _, _)
\* lines 686-694
CreateChasers(c, s, i) ==
    IF i > Len(c.chaserNames) THEN s
    ELSE LET name == c.chaserNames[i]
             s1   == Logged(s, "CreateChaser", << name >>, DefaultTime)
         IN  CreateChasers(c,
                 IF ChaserCreated(c, name)
                 THEN [s1 EXCEPT !.chasers = Append(@, name)]
                 ELSE s1,
                 i + 1)

RECURSIVE HooksNotChecked(_, _, _, _, _)
\* a job that would call every chaser's hook whatever the hooks return
HooksNotChecked(c, s, hook, t, i) ==
    IF i > Len(s.chasers) THEN s
    ELSE HooksNotChecked(c, Logged(s, hook, << s.chasers[i] >>, t), hook, t, i + 1)

RECURSIVE RunHooks(_, _, _, _, _)
\* a loop over mChasers calling one hook, left at the first failure
\* (lines 697-702 and 718-722)
RunHooks(c, s, hook, t, i) ==
    IF i > Len(s.chasers) THEN s
    ELSE LET s1 == Logged(s, hook, << s.chasers[i] >>, t)
         IN  IF HookFails(c, hook, s.chasers[i], t) THEN Fail(s1)
             ELSE RunHooks(c, s1, hook, t, i + 1)

\* lines 681-702
BW_Chasers(c, s) ==
    RunHooks(c, CreateChasers(c, [s EXCEPT !.chasers = << >>], 1),
             "ExportDefault", DefaultTime, 1)

\* _BeginWriting (lines 383-705)
_BeginWriting(c, s, uuid) ==
    LET s1  == BW_DefaultPrim(c, Logged(s, "BeginWriting", NoOne, DefaultTime))
        s2  == BW_CheckRoots(c, s1)
        s3  == Then(s2, LAMBDA x : BW_FileName(c, x, uuid))
        s4  == Then(s3, LAMBDA x : BW_RenderLayerObjs(c, x))
        s5  == Then(s4, LAMBDA x : BW_Open(c, x))
        s6  == Then(s5, LAMBDA x : BW_SwitchLayer(c, x))
        s7  == Then(s6, LAMBDA x : BW_Traverse(c, x))
        s8  == Then(s7, LAMBDA x : BW_RootMapCheck(c, x))
        s9  == Then(s8, LAMBDA x : BW_PostProcess(c, x))
    IN  Then(s9, LAMBDA x : BW_Chasers(c, x))

---------------------------------------------------------------------------
(* _WriteFrame (lines 707-727).                                            *)

RECURSIVE WriteWriters(_, _, _, _)
\* lines 711-716
WriteWriters(c, s, t, i) ==
    IF i > Len(s.writers) THEN s
    ELSE WriteWriters(c,
             IF HasValidPrim(c, s.writers[i])
             THEN [Logged(s, "Write", s.writers[i], t)
                      EXCEPT !.samples = @ \cup
                          {<< ConvertDagToUsdPath(c, s.overridePath, s.writers[i]), t >>}]
             ELSE s,
             t, i + 1)

\* _PerFrameCallback (line 724)
_PerFrameCallback(s, t) == Logged(s, "PerFrameCallback", NoOne, t)

\* a job that would run the chasers' hook before the writers write
ChasersBeforeWriters(c, s, t) ==
    Then(RunHooks(c, Logged(s, "WriteFrame", NoOne, t), "ExportFrame", t, 1),
         LAMBDA x : _PerFrameCallback(WriteWriters(c, x, t, 1), t))

_WriteFrame(c, s, t) ==
    Then(RunHooks(c, WriteWriters(c, Logged(s, "WriteFrame", NoOne, t), t, 1),
                  "ExportFrame", t, 1),
         LAMBDA x : _PerFrameCallback(x, t))

---------------------------------------------------------------------------
(* The composed stage: the layer's prims and, below a prim that holds an   *)
(* internal reference, the prims below the reference's target.             *)

PathSuffix(q, b) == SubSeq(q, Len(b) + 1, Len(q))

RefHolders(s) == {r \in DOMAIN s.prims : s.prims[r].refs # NoRef}

\* where the reference above p brings p from, NoRef without one
RefSource(s, p) ==
    LET above == {r \in RefHolders(s) : IsPrefix(r, p)}
    IN  IF above = {} THEN NoRef
        ELSE LET r == CHOOSE r \in above : TRUE
             IN  s.prims[r].refs \o PathSuffix(p, r)

StagePaths(s) ==
    DOMAIN s.prims \cup
    UNION {{r \o PathSuffix(q, s.prims[r].refs) :
               q \in {q \in DOMAIN s.prims : IsPrefix(s.prims[r].refs, q)}} :
           r \in RefHolders(s)}

\* the spec that gives p a field: its own, else the referenced one
SpecOf(s, p) ==
    IF p \in DOMAIN s.prims THEN s.prims[p] ELSE s.prims[RefSource(s, p)]

StageType(s, p) ==
    IF p \in DOMAIN s.prims /\ s.prims[p].type # "" THEN s.prims[p].type
    ELSE IF RefSource(s, p) \in DOMAIN s.prims THEN s.prims[RefSource(s, p)].type
    ELSE ""

\* the prims the selected variant deactivates
VariantDeactivated(s) ==
    IF s.variantSet.exists /\ s.variantSet.selection \in DOMAIN s.variantSet.deactivated
    THEN s.variantSet.deactivated[s.variantSet.selection]
    ELSE {}

IsActive(s, p) == SpecOf(s, p).active /\ p \notin VariantDeactivated(s)

\* the prim is on the stage: no ancestor of it is inactive
IsPopulated(s, p) ==
    /\ p \in StagePaths(s)
    /\ \A k \in 1..(Len(p) - 1) : IsActive(s, SubSeq(p, 1, k))

\* UsdPrim::GetAllChildren
AllChildren(s, p) ==
    IF IsActive(s, p)
    THEN {q \in StagePaths(s) : Len(q) = Len(p) + 1 /\ IsPrefix(p, q)}
    ELSE {}

\* UsdStage::Traverse: the active prims of the stage
Traverse(s) == {p \in StagePaths(s) : IsPopulated(s, p) /\ IsActive(s, p)}

\* UsdPrim::IsA<UsdGeomXformable>
IsXformable(s, p) == StageType(s, p) \in {"Xform", "Mesh"}

\* GetPseudoRoot().GetChildren(): the active root prims, in order
RootPrims(s) == SelectSeq(s.rootOrder, LAMBDA n : IsActive(s, << n >>))

\* UsdStage::RemovePrim: the layer's specs at the path and below are removed
RemovePrim(s, path) ==
    LET kept == {q \in DOMAIN s.prims : ~IsPrefix(path, q)}
    IN  [Logged(s, "RemovePrim", path, DefaultTime)
            EXCEPT !.prims = [q \in kept |-> s.prims[q]],
                   !.rootOrder = SelectSeq(@, LAMBDA n : << n >> \in kept),
                   !.samples = {x \in @ : ~IsPrefix(path, x[1])}]

RECURSIVE SeqOf(_)
\* the elements of a finite set, one after the other
SeqOf(S) ==
    IF S = {} THEN << >>
    ELSE LET x == CHOOSE x \in S : TRUE IN << x >> \o SeqOf(S \ {x})

---------------------------------------------------------------------------
(* _PruneEmpties (lines 1029-1102).                                        *)

\* a job that would take every childless prim for an empty one
AnyChildlessPrim(s, p) ==
    /\ IsPopulated(s, p)
    /\ AllChildren(s, p) = {}
    /\ ~SpecOf(s, p).payload
    /\ SpecOf(s, p).refs = NoRef

\* isEmptyPrim (lines 1030-1056)
isEmptyPrim(s, p) ==
    /\ IsPopulated(s, p)
    /\ StageType(s, p) \in {"Xform", "Scope"}
    /\ AllChildren(s, p) = {}
    /\ ~SpecOf(s, p).payload
    /\ SpecOf(s, p).refs = NoRef

RECURSIVE RemoveAll(_, _, _)
RemoveAll(s, paths, i) ==
    IF i > Len(paths) THEN s ELSE RemoveAll(RemovePrim(s, paths[i]), paths, i + 1)

\* a job that would not look again at the parents of what it removed
ParentsNotRechecked(s, toRemove) ==
    [s |-> RemoveAll(Logged(s, "removeEmptyPrims", NoOne, DefaultTime), toRemove, 1),
     toRecheck |-> << >>]

\* removeEmptyPrims (lines 1058-1069): [s, toRecheck], toRemove and
\* toRecheck being sequences of paths in which a path may stand twice
removeEmptyPrims(s, toRemove) ==
    [s |-> RemoveAll(Logged(s, "removeEmptyPrims", NoOne, DefaultTime), toRemove, 1),
     toRecheck |-> [i \in DOMAIN toRemove |-> Front(toRemove[i])]]

\* lines 1077-1083: the path that is never removed, << >> when none
DefaultPrimPath(s) ==
    IF s.defaultPrimArg # "" THEN << s.defaultPrimArg >> ELSE << >>

\* lines 1097-1100: the paths of toRecheck that are removed next, r being
\* what removeEmptyPrims returned
StillEmpty(r) ==
    SelectSeq(r.toRecheck,
              LAMBDA p : DefaultPrimPath(r.s) # p /\ isEmptyPrim(r.s, p))

RECURSIVE PruneLoop(_, _)
\* lines 1093-1101
PruneLoop(s, toRemove) ==
    IF toRemove = << >> THEN s
    ELSE PruneLoop(removeEmptyPrims(s, toRemove).s,
                   StillEmpty(removeEmptyPrims(s, toRemove)))

\* _PruneEmpties (lines 1072-1102); the prims of one round are childless, so
\* the order in which the stage's traversal gives them changes nothing
_PruneEmpties(c, s) ==
    IF c.includeEmptyTransforms THEN s
    ELSE PruneLoop(Logged(s, "PruneEmpties", NoOne, DefaultTime),
                   SeqOf({p \in Traverse(s) :
                             DefaultPrimPath(s) # p /\ isEmptyPrim(s, p)}))

---------------------------------------------------------------------------
(* _WriteVariants (lines 863-1027).                                        *)

\* lines 908-925: the path of the new variant root
VariantRootPath(c, s) ==
    IF c.rootPrim = ""
    THEN << MayaNodeNameToPrimName(s.writers[1][1], FALSE) >>
    ELSE << c.rootPrim >>

\* SdfPath::ReplacePrefix(path.GetPrefixes()[0], root)
ToVariantNamespace(path, root) == root \o SubSeq(path, 2, Len(path))

\* lines 959-978: the mapped members of a render layer, under the variant root
ActivePaths(c, s, root, layer) ==
    {ToVariantNamespace(s.dagToUsd[ExtendToShape(c, m)], root) :
        m \in {m \in c.members[layer] : ExtendToShape(c, m) \in DOMAIN s.dagToUsd}}

\* a job that would keep only what is at or below a member
OnlyBelowMembers(activePaths, p) == \E a \in activePaths : IsPrefix(a, p)

\* lines 997-1005
IsActiveFor(activePaths, p) ==
    \E a \in activePaths : IsPrefix(a, p) \/ IsPrefix(p, a)

\* lines 991-1011: the prims the range reaches and finds inactive; nothing
\* below such a prim is visited
PrimsToDeactivate(s, activePaths) ==
    LET off(p) == IsXformable(s, p) /\ ~IsActiveFor(activePaths, p)
    IN  {p \in StagePaths(s) :
            /\ IsPopulated(s, p)
            /\ off(p)
            /\ \A k \in 1..(Len(p) - 1) : ~off(SubSeq(p, 1, k))}

\* AddVariantSet, AddVariant and SetVariantSelection of lines 982-985
WithVariant(vs, name) ==
    [exists |-> TRUE,
     variants |-> IF name \in Range(vs.variants) THEN vs.variants
                  ELSE Append(vs.variants, name),
     selection |-> name,
     deactivated |-> MapSet(vs.deactivated, name, {})]

\* lines 979-1018: the variant of one render layer
AddLayerVariant(s, layer, activePaths) ==
    LET s1 == [Logged(s, "AddVariant", << layer >>, DefaultTime)
                  EXCEPT !.variantSet = WithVariant(@, layer)]
    IN  [s1 EXCEPT !.variantSet.deactivated[layer] =
                       PrimsToDeactivate(s1, activePaths)]

\* a job in which the render layer seen last would be the default variant
LastLayerIsDefault(sofar, layer) == layer

\* lines 945-948: the default modeling variant after seeing one more layer
DefaultVariantAfter(sofar, layer) ==
    IF layer = DefaultRenderLayer THEN layer ELSE sofar

\* a job that would add a variant for every render layer
VariantForEveryLayer(s, layer, activePaths) == AddLayerVariant(s, layer, activePaths)

RECURSIVE VariantLoop(_, _, _, _)
\* lines 936-1019; v is [s, defaultModelingVariant]
\* lines 950-1018: the layer is made current and, when it has mapped
\* members, gets its variant
LayerVariant(s, layer, activePaths) ==
    IF activePaths # {} THEN AddLayerVariant(s, layer, activePaths) ELSE s

\* lines 939-1018: one iteration of the loop over the render layers
VariantStep(c, v, root, layer) ==
    [s |-> LayerVariant([Logged(v.s, "SetRenderLayer", << layer >>, DefaultTime)
                            EXCEPT !.hostLayer = layer],
                        layer, ActivePaths(c, v.s, root, layer)),
     defaultModelingVariant |-> DefaultVariantAfter(v.defaultModelingVariant, layer)]

VariantLoop(c, v, root, ir) ==
    IF ir > Len(v.s.renderLayerObjs) THEN v
    ELSE VariantLoop(c, VariantStep(c, v, root, v.s.renderLayerObjs[ir]), root, ir + 1)

\* lines 1021-1025
SelectDefaultVariant(vs, defaultModelingVariant) ==
    IF vs.exists THEN [vs EXCEPT !.selection = defaultModelingVariant] ELSE vs

\* _WriteVariants: [s, defaultPrim]
\* lines 927-933: the variant root references the base model, which is
\* deactivated
WithVariantRoot(s, root, usdRootPrim) ==
    [DefinePrim(s, root, "")
        EXCEPT !.prims[root].refs = usdRootPrim,
               !.prims[root].active = TRUE,
               !.prims[usdRootPrim].active = FALSE]

\* lines 1021-1026, v being what the loop over the render layers left
VariantsDone(v, root) ==
    [s |-> [v.s EXCEPT !.variantSet = SelectDefaultVariant(@, v.defaultModelingVariant)],
     defaultPrim |-> root[1]]

\* lines 927-1026, root being usdVariantRootPrimPath
WriteVariantsAt(c, s, usdRootPrim, root) ==
    VariantsDone(VariantLoop(c, [s |-> WithVariantRoot(s, root, usdRootPrim),
                                 defaultModelingVariant |-> ""],
                             root, 1),
                 root)

_WriteVariants(c, s, usdRootPrim) ==
    WriteVariantsAt(c, Logged(s, "WriteVariants", NoOne, DefaultTime), usdRootPrim,
                    VariantRootPath(c, s))

---------------------------------------------------------------------------
(* _CreatePackage and _FinishWriting.                                      *)

\* SdfLayer::PermissionToSave of the job's layer
PermissionToSave(c, s) == ~s.fileName.anon /\ (c.append => c.writable)

\* a job that would name the package's first layer after the temporary file
TmpLayerName(s) == [anon |-> FALSE, dir |-> "", parts |-> s.fileName.parts]

\* lines 1110-1112
FirstLayerName(s) ==
    [anon |-> FALSE, dir |-> "",
     parts |-> Append(Front(s.packageName.parts), TfGetExtension(s.fileName))]

\* what a package made of the file at s.fileName holds
PackageOf(c, s) ==
    [package |-> TRUE,
     arkit |-> c.compatibility = "appleArKit",
     firstLayerName |-> FirstLayerName(s),
     layer |-> IF s.fileName \in DOMAIN s.files THEN s.files[s.fileName] ELSE EmptyLayer]

\* a job that would give up when the package cannot be made
PackageFailureReturned(c, s) ==
    LET s1 == Logged(s, "CreatePackage", NoOne, DefaultTime)
    IN  IF c.fault.phase = "CreatePackage"
        THEN Fail(Logged(s1, "PackageError", NoOne, DefaultTime))
        ELSE [s1 EXCEPT !.files = MapSet(@, s.packageName, PackageOf(c, s))]

\* _CreatePackage (lines 1104-1136): a failure is reported and changes nothing
_CreatePackage(c, s) ==
    LET s1 == Logged(s, "CreatePackage", NoOne, DefaultTime)
    IN  IF c.fault.phase = "CreatePackage"
        THEN Logged(s1, "PackageError", NoOne, DefaultTime)
        ELSE [s1 EXCEPT !.files = MapSet(@, s.packageName, PackageOf(c, s))]

\* TfDeleteFile
TfDeleteFile(fs, f) == [g \in DOMAIN fs \ {f} |-> fs[g]]

\* UsdMayaExportChaser::GetExtraPrimsPaths of the chaser called name
ExtraPrimsPaths(name) ==
    IF name = "c1" THEN << << "extra", "c1" >> >>
    ELSE IF name = "c2" THEN << << "extra", "c2", "a" >>, << "extra", "c2", "b" >> >>
    ELSE << >>

RECURSIVE PostExportKeepsLast(_, _, _)
\* a job that would assign each chaser's paths to the list
PostExportKeepsLast(c, s, i) ==
    IF i > Len(s.chasers) THEN s
    ELSE IF HookFails(c, "PostExport", s.chasers[i], DefaultTime)
    THEN Fail(Logged(s, "PostExport", << s.chasers[i] >>, DefaultTime))
    ELSE PostExportKeepsLast(c,
             [Logged(s, "PostExport", << s.chasers[i] >>, DefaultTime)
                 EXCEPT !.extras = ExtraPrimsPaths(s.chasers[i])],
             i + 1)

RECURSIVE PostExportChasers(_, _, _)
\* lines 811-824
PostExportChasers(c, s, i) ==
    IF i > Len(s.chasers) THEN s
    ELSE LET name == s.chasers[i]
             s1   == Logged(s, "PostExport", << name >>, DefaultTime)
         IN  IF HookFails(c, "PostExport", name, DefaultTime) THEN Fail(s1)
             ELSE PostExportChasers(c,
                      [s1 EXCEPT !.extras = @ \o ExtraPrimsPaths(name)], i + 1)

RECURSIVE PostExportWriters(_, _)
\* lines 801-806
PostExportWriters(s, i) ==
    IF i > Len(s.writers) THEN s
    ELSE PostExportWriters(Logged(s, "WriterPostExport", s.writers[i], DefaultTime), i + 1)

\* lines 733-755: [s, usdRootPrim, defaultPrim], usdRootPrim << >> when the
\* stage has no root prim
FW_VariantsOf(c, s, roots) ==
    IF Len(roots) = 0
    THEN [s |-> s, usdRootPrim |-> << >>, defaultPrim |-> ""]
    ELSE IF Len(s.renderLayerObjs) > 1 /\ s.overridePath # << >>
    THEN _WriteVariants(c, s, << roots[1] >>) @@ [usdRootPrim |-> << roots[1] >>]
    ELSE [s |-> s, usdRootPrim |-> << roots[1] >>, defaultPrim |-> roots[1]]

FW_Variants(c, s) == FW_VariantsOf(c, s, RootPrims(s))

\* a job that would leave the render layer as the export left it
LayerNotRestored(s) == s

\* lines 758-765
FW_RestoreLayer(s) ==
    IF s.hostLayer # s.savedLayerName
    THEN [Logged(s, "SetRenderLayer", << s.savedLayerName >>, DefaultTime)
             EXCEPT !.hostLayer = s.savedLayerName]
    ELSE s

\* a job that would take the word None for the name of a prim
NoneIsAName(s, hasRoot, defaultPrim) ==
    IF s.defaultPrimArg # ""
    THEN [Logged(s, "SetDefaultPrim", << s.defaultPrimArg >>, DefaultTime)
             EXCEPT !.layerDefaultPrim = s.defaultPrimArg]
    ELSE IF hasRoot
    THEN [Logged(s, "SetDefaultPrim", << defaultPrim >>, DefaultTime)
             EXCEPT !.layerDefaultPrim = defaultPrim]
    ELSE s

\* lines 788-797: the default prim the layer gets, given the local
\* defaultPrim and whether a root prim exists
FW_SetDefaultPrim(s, hasRoot, defaultPrim) ==
    IF s.defaultPrimArg # ""
    THEN IF s.defaultPrimArg # "None"
         THEN [Logged(s, "SetDefaultPrim", << s.defaultPrimArg >>, DefaultTime)
                  EXCEPT !.layerDefaultPrim = s.defaultPrimArg]
         ELSE s
    ELSE IF hasRoot
    THEN [Logged(s, "SetDefaultPrim", << defaultPrim >>, DefaultTime)
             EXCEPT !.layerDefaultPrim = defaultPrim]
    ELSE s

\* lines 835-838
FW_Save(c, s) ==
    IF PermissionToSave(c, s)
    THEN [Logged(s, "Save", NoOne, DefaultTime)
             EXCEPT !.files = MapSet(@, s.fileName, LayerContent(s))]
    ELSE s

\* lines 840-845
FW_Package(c, s) == IF s.packageName # NoFile THEN _CreatePackage(c, s) ELSE s

\* a job that would forget the path mapping when it releases the stage
MapDroppedAtRelease(s) ==
    [Logged(s, "ReleaseStage", NoOne, DefaultTime)
        EXCEPT !.stageOpen = FALSE, !.writers = << >>, !.dagToUsd = EmptyMap]

\* lines 848-849
FW_Release(s) ==
    [Logged(s, "ReleaseStage", NoOne, DefaultTime)
        EXCEPT !.stageOpen = FALSE, !.writers = << >>]

\* a job that would leave the temporary file behind
TmpFileKept(s) == s

\* lines 855-857
FW_DeleteTmp(s) ==
    IF s.packageName # NoFile
    THEN [Logged(s, "DeleteFile", NoOne, DefaultTime)
             EXCEPT !.files = TfDeleteFile(@, s.fileName)]
    ELSE s

\* a job that would save the layer before it prunes the empty prims
SaveBeforePrune(c, s) ==
    FW_DeleteTmp(FW_Release(FW_Package(c,
        Logged(_PruneEmpties(c, FW_Save(c, Logged(s, "PostCallback", NoOne, DefaultTime))),
               "RestoreUpAxisAndUnits", NoOne, DefaultTime))))

\* lines 829-860: what follows the chasers' hooks
FW_Tail(c, s) ==
    FW_DeleteTmp(FW_Release(FW_Package(c, FW_Save(c,
        Logged(_PruneEmpties(c, Logged(s, "PostCallback", NoOne, DefaultTime)),
               "RestoreUpAxisAndUnits", NoOne, DefaultTime)))))

\* lines 757-824, v being what lines 733-755 left
FW_Hooks(c, v) ==
    PostExportChasers(c,
        [PostExportWriters(
             FW_SetDefaultPrim(FW_RestoreLayer(v.s), v.usdRootPrim # << >>, v.defaultPrim),
             1)
            EXCEPT !.extras = << >>],
        1)

\* a job that would save and package whatever the chasers' hooks returned
FinishSavesAnyway(c, s) ==
    FW_Tail(c, FW_Hooks(c, FW_Variants(c, Logged(s, "FinishWriting", NoOne, DefaultTime))))

\* _FinishWriting (lines 729-861)
_FinishWriting(c, s) ==
    Then(FW_Hooks(c, FW_Variants(c, Logged(s, "FinishWriting", NoOne, DefaultTime))),
         LAMBDA x : FW_Tail(c, x))

---------------------------------------------------------------------------
(* Write (lines 276-327), one action per stretch: _BeginWriting, one turn  *)
(* of the loop over the time samples, _FinishWriting.                      *)

\* the job state the actions start from
Job ==
    [ok |-> TRUE, defaultPrimArg |-> defaultPrimArg, overridePath |-> overridePath,
     fileName |-> fileName, packageName |-> packageName, stageOpen |-> stageOpen,
     prims |-> prims, rootOrder |-> rootOrder, samples |-> samples,
     layerDefaultPrim |-> layerDefaultPrim, variantSet |-> variantSet,
     writers |-> writers, dagToUsd |-> dagToUsd, usdToDag |-> usdToDag,
     chasers |-> chasers, extras |-> extras, renderLayerObjs |-> renderLayerObjs,
     savedLayerName |-> savedLayerName, hostLayer |-> hostLayer,
     hostTime |-> hostTime, files |-> files, log |-> log]

\* the job state s becomes the next state
Commit(s) ==
    /\ defaultPrimArg' = s.defaultPrimArg
    /\ overridePath' = s.overridePath
    /\ fileName' = s.fileName
    /\ packageName' = s.packageName
    /\ stageOpen' = s.stageOpen
    /\ prims' = s.prims
    /\ rootOrder' = s.rootOrder
    /\ samples' = s.samples
    /\ layerDefaultPrim' = s.layerDefaultPrim
    /\ variantSet' = s.variantSet
    /\ writers' = s.writers
    /\ dagToUsd' = s.dagToUsd
    /\ usdToDag' = s.usdToDag
    /\ chasers' = s.chasers
    /\ extras' = s.extras
    /\ renderLayerObjs' = s.renderLayerObjs
    /\ savedLayerName' = s.savedLayerName
    /\ hostLayer' = s.hostLayer
    /\ hostTime' = s.hostTime
    /\ files' = s.files
    /\ log' = s.log

\* MGlobal::viewFrame
ViewFrame(s, t) == [Logged(s, "viewFrame", NoOne, t) EXCEPT !.hostTime = t]

\* a job that would not look at the interrupt flag
NeverInterrupted(c, k) == FALSE

\* progressBar.isInterruptRequested() after the k-th frame
InterruptRequested(c, k) == c.cancelAt # 0 /\ k >= c.cancelAt

\* Write returns false because the phase did (lines 288-290, 304-307, 320-322)
Returned(s, phase) == IF s.ok THEN s ELSE Logged(s, "ReturnFalse", << phase >>, DefaultTime)

\* MUuid::generate never gives an identifier it gave before
IsFreshUuid(uuid) ==
    _MakeTmpStageName(FileNameWithExt(cfg, cfg.dest).dir, uuid) # firstOutput.tmp

BeginDone(s) ==
    /\ Commit(s)
    /\ pc' = IF ~s.ok THEN "done"
             ELSE IF cfg.timeSamples # << >> THEN "frames"
             ELSE "finish"
    /\ result' = IF s.ok THEN result ELSE "failure"
    /\ oldCurTime' = IF s.ok /\ cfg.timeSamples # << >> THEN s.hostTime ELSE oldCurTime

\* lines 276-294
WriteBegin ==
    /\ pc = "begin"
    /\ \E uuid \in UUIDs :
          /\ IsFreshUuid(uuid)
          /\ BeginDone(Returned(_BeginWriting(cfg, Job, uuid), "BeginWriting"))
    /\ UNCHANGED << cfg, frameIdx, run, firstOutput, edit >>

\* a job that would not set the time back when a frame fails
TimeLeftOnFailure(s, more) ==
    /\ Commit(IF more \/ ~s.ok THEN s ELSE ViewFrame(s, oldCurTime))
    /\ pc' = IF ~s.ok THEN "done" ELSE IF more THEN "frames" ELSE "finish"
    /\ result' = IF s.ok THEN result ELSE "failure"

\* lines 303-317: the loop goes on, or the time is set back and it is left
FrameDone(s, more) ==
    /\ Commit(IF more THEN s ELSE ViewFrame(s, oldCurTime))
    /\ pc' = IF ~s.ok THEN "done" ELSE IF more THEN "frames" ELSE "finish"
    /\ result' = IF s.ok THEN result ELSE "failure"

\* lines 299-307 for the sample t
FrameAt(t) == Returned(_WriteFrame(cfg, ViewFrame(Job, t), t), "WriteFrame")

\* lines 296-317: the frame of the next time sample; the loop is left when
\* the frame fails, on an interrupt and after the last sample
WriteFrameStep ==
    /\ pc = "frames"
    /\ FrameDone(FrameAt(cfg.timeSamples[frameIdx + 1]),
                 /\ FrameAt(cfg.timeSamples[frameIdx + 1]).ok
                 /\ ~InterruptRequested(cfg, frameIdx + 1)
                 /\ frameIdx + 1 < Len(cfg.timeSamples))
    /\ frameIdx' = frameIdx + 1
    /\ UNCHANGED << cfg, oldCurTime, run, firstOutput, edit >>

\* a job whose Write would return true whatever _FinishWriting returned
FinishIgnored(s) ==
    /\ Commit(s)
    /\ result' = "success"

FinishDone(s) ==
    /\ Commit(s)
    /\ result' = IF s.ok THEN "success" ELSE "failure"

\* lines 319-326
WriteFinish ==
    /\ pc = "finish"
    /\ FinishDone(Returned(_FinishWriting(cfg, Job), "FinishWriting"))
    /\ pc' = "done"
    /\ UNCHANGED << cfg, frameIdx, oldCurTime, run, firstOutput, edit >>

---------------------------------------------------------------------------
(* A second job with the same arguments on the same scene, started after   *)
(* the first has returned: the file system and the host are as the first   *)
(* job left them.                                                          *)

\* the file the export is for
Destination == FileNameWithExt(cfg, cfg.dest)

NoOutput == [package |-> FALSE, none |-> TRUE]

\* what a job leaves: what Write returned, the destination's content and
\* the layer as the job last had it
Output ==
    [result |-> result,
     file |-> IF Destination \in DOMAIN files THEN files[Destination] ELSE NoOutput,
     layer |-> [prims |-> prims, rootOrder |-> rootOrder, samples |-> samples,
                defaultPrim |-> layerDefaultPrim, variantSet |-> variantSet]]

NoRun == [tmp |-> NoFile, out |-> NoOutput, files |-> EmptyMap]

\* the constructor of UsdMaya_WriteJob: the fields of a new job
NewJob ==
    /\ pc' = "begin"
    /\ result' = "none"
    /\ frameIdx' = 0
    /\ oldCurTime' = 0
    /\ defaultPrimArg' = cfg.defaultPrim
    /\ overridePath' = << >>
    /\ fileName' = NoFile
    /\ packageName' = NoFile
    /\ stageOpen' = FALSE
    /\ prims' = EmptyMap
    /\ rootOrder' = << >>
    /\ samples' = {}
    /\ layerDefaultPrim' = ""
    /\ variantSet' = NoVariantSet
    /\ writers' = << >>
    /\ dagToUsd' = EmptyMap
    /\ usdToDag' = EmptyMap
    /\ chasers' = << >>
    /\ extras' = << >>
    /\ renderLayerObjs' = << >>
    /\ savedLayerName' = ""
    /\ log' = << >>

Rerun ==
    /\ pc = "done"
    /\ run = 1
    /\ run' = 2
    /\ firstOutput' = [tmp |-> IF packageName # NoFile THEN fileName ELSE NoFile,
                       out |-> Output, files |-> files]
    /\ NewJob
    /\ UNCHANGED << cfg, hostLayer, hostTime, files, edit >>

Next == WriteBegin \/ WriteFrameStep \/ WriteFinish \/ Rerun

---------------------------------------------------------------------------
(* Configurations and initial states.                                      *)

NoFault == [phase |-> "none", who |-> "", t |-> DefaultTime]

File(stem, exts) == [anon |-> FALSE, dir |-> "out", parts |-> << stem >> \o exts]

AnonFile(exts) == [anon |-> TRUE, dir |-> "", parts |-> << "anon:tag" >> \o exts]

\* the host's time before the export
InitialTime == 9

BaseCfg ==
    [chainLen |-> 1, leafMesh |-> FALSE,
     dagPaths |-> {<< "A" >>, << "C" >>},
     stripNamespaces |-> FALSE, mergeTransformAndShape |-> TRUE,
     compatibility |-> "none", timeSamples |-> << >>, chaserNames |-> << >>,
     renderLayerMode |-> "defaultLayer", includeEmptyTransforms |-> TRUE,
     defaultPrim |-> "", legacyMaterialScope |-> FALSE, rootPrim |-> "",
     exportRoots |-> << >>, rootMap |-> FALSE,
     dest |-> File("scene", << "usd" >>), append |-> FALSE,
     sceneCandidates |-> << "A", "C" >>,
     layers |-> << DefaultRenderLayer >>,
     members |-> [l \in {DefaultRenderLayer} |-> {}],
     initialLayer |-> DefaultRenderLayer, initialTime |-> InitialTime,
     noWriter |-> {}, invalidPrim |-> {}, pruneChildren |-> {}, noTraverse |-> {},
     noCreate |-> {}, fault |-> NoFault, cancelAt |-> 0, writable |-> TRUE,
     initialFiles |-> EmptyMap]

InitWith(C) ==
    /\ cfg \in C
    /\ pc = "begin"
    /\ result = "none"
    /\ frameIdx = 0
    /\ oldCurTime = 0
    /\ defaultPrimArg = cfg.defaultPrim
    /\ overridePath = << >>
    /\ fileName = NoFile
    /\ packageName = NoFile
    /\ stageOpen = FALSE
    /\ prims = EmptyMap
    /\ rootOrder = << >>
    /\ samples = {}
    /\ layerDefaultPrim = ""
    /\ variantSet = NoVariantSet
    /\ writers = << >>
    /\ dagToUsd = EmptyMap
    /\ usdToDag = EmptyMap
    /\ chasers = << >>
    /\ extras = << >>
    /\ renderLayerObjs = << >>
    /\ savedLayerName = ""
    /\ hostLayer = cfg.initialLayer
    /\ hostTime = cfg.initialTime
    /\ files = cfg.initialFiles
    /\ log = << >>
    /\ run = 1
    /\ firstOutput = NoRun

\* the time-sample lists: ascending from 1, and descending
TimeLists ==
    {[i \in 1..n |-> i] : n \in 0..MaxSamples} \cup
    {[i \in 1..n |-> n + 1 - i] : n \in 2..MaxSamples}

ChaserName(i) == "c" \o ToString(i)

\* the chaser lists c1, c1 c2, ...
ChaserLists == {[i \in 1..n |-> ChaserName(i)] : n \in 0..MaxChasers}

AllChasers == [i \in 1..MaxChasers |-> ChaserName(i)]

\* the ways one collaborator can fail during the job
Faults(ts, names) ==
    {[phase |-> ph, who |-> "", t |-> DefaultTime] :
        ph \in {"open", "PostProcess", "MakeModelHierarchy", "CreatePackage"}}
    \cup {[phase |-> ph, who |-> n, t |-> DefaultTime] :
             ph \in {"ExportDefault", "PostExport"}, n \in Range(names)}
    \cup {[phase |-> "ExportFrame", who |-> n, t |-> t] :
             n \in Range(names), t \in Range(ts)}

\* jobs that differ in the samples, the chasers and the cancellation
ControlConfigs ==
    {[BaseCfg EXCEPT !.timeSamples = ts, !.chaserNames = ch, !.cancelAt = k] :
        ts \in TimeLists, ch \in ChaserLists, k \in 0..MaxSamples}

\* jobs in which one collaborator fails, or one chaser cannot be created
FaultConfigs ==
    {[BaseCfg EXCEPT !.timeSamples = ts, !.chaserNames = AllChasers,
                     !.fault = f, !.cancelAt = k, !.dest = d] :
        ts \in TimeLists, f \in Faults([i \in 1..MaxSamples |-> i], AllChasers),
        k \in 0..1, d \in {File("scene", << "usd" >>), File("scene", << "usdz" >>)}}
    \cup {[BaseCfg EXCEPT !.chaserNames = AllChasers, !.noCreate = nc,
                          !.timeSamples = ts, !.fault = f] :
             nc \in SUBSET Range(AllChasers) \ {{}}, ts \in TimeLists,
             f \in {NoFault} \cup
                   {[phase |-> "ExportDefault", who |-> n, t |-> DefaultTime] :
                       n \in Range(AllChasers)}}

\* the destinations: with each extension, with none, with an unknown one,
\* with a dot in the stem, and anonymous
Destinations ==
    {File("scene", e) : e \in {<< >>, << "usd" >>, << "usda" >>, << "usdc" >>,
                               << "usdz" >>, << "txt" >>, << "usdz", "bak" >>}}
    \cup {AnonFile(e) : e \in {<< >>, << "txt" >>}}

\* a layer that exists before the export
OldLayer ==
    [EmptyLayer EXCEPT !.prims = (<< "Old" >> :> NewPrim("Xform")),
                       !.rootOrder = << "Old" >>,
                       !.samples = {<< << "Old" >>, DefaultTime >>}]

\* jobs that differ in the destination, the profile and the append flag
PackageFault == [phase |-> "CreatePackage", who |-> "", t |-> DefaultTime]

DestConfigs ==
    {c \in
     {[BaseCfg EXCEPT !.dest = d, !.compatibility = p, !.append = a,
                     !.timeSamples = ts, !.fault = f, !.writable = w,
                     !.initialFiles = IF old
                                      THEN FileNameWithExt([compatibility |-> p], d)
                                               :> OldLayer
                                      ELSE EmptyMap] :
        d \in Destinations, p \in {"none", "appleArKit"}, a \in BOOLEAN,
        ts \in {<< >>, << 1 >>}, old \in BOOLEAN, w \in BOOLEAN,
        f \in {NoFault, PackageFault}} :
     /\ c.dest.anon => c.initialFiles = EmptyMap
     /\ ~c.writable => (c.append /\ c.initialFiles # EmptyMap)
     /\ c.fault # NoFault => ~c.append}

\* the configured roots: apart, nested, and below one parent
RootSets ==
    {{}, {<< "A" >>}, {<< "C" >>}, {<< "A" >>, << "C" >>}, {<< "A", "B" >>},
     {<< "A", "ns:B" >>}, {<< "A", "B" >>, << "A", "ns:B" >>},
     {<< "A", "B" >>, << "C" >>}, {<< "A", "B", "BShape" >>},
     {<< "A" >>, << "A", "B" >>}, {<< "A", "B" >>, << "A", "B", "BShape" >>},
     {<< "C" >>, Chain(1)}, {<< "A" >>, << "A", "B", "BShape" >>, << "C" >>}}

\* jobs that differ in the roots, in how names and shapes are mapped and in
\* what the writers of the two B nodes do
NameConfigs ==
    {[BaseCfg EXCEPT !.dagPaths = r, !.stripNamespaces = sn,
                     !.mergeTransformAndShape = m, !.noWriter = nw,
                     !.invalidPrim = iv, !.pruneChildren = pr,
                     !.timeSamples = << 1 >>] :
        r \in RootSets, sn \in BOOLEAN, m \in BOOLEAN,
        nw \in {{}, {<< "A", "ns:B" >>}}, iv \in {{}, {<< "A", "ns:B" >>}},
        pr \in {{}, {<< "A", "B" >>}}}

\* jobs that differ in the empty groups of the scene and in the default prim
PruneConfigs ==
    {[BaseCfg EXCEPT !.includeEmptyTransforms = keep, !.chainLen = n,
                     !.leafMesh = mesh, !.defaultPrim = dp,
                     !.legacyMaterialScope = legacy, !.dagPaths = r,
                     !.sceneCandidates = IF << "A" >> \in r THEN << "A", "C" >>
                                         ELSE << "C" >>] :
        keep \in BOOLEAN, n \in 0..MaxChain, mesh \in BOOLEAN,
        dp \in {"", "C", "G1", "None"}, legacy \in BOOLEAN,
        r \in {{<< "C" >>}, {<< "A" >>, << "C" >>}}}
    \cup {[BaseCfg EXCEPT !.includeEmptyTransforms = FALSE,
                          !.mergeTransformAndShape = FALSE,
                          !.noWriter = {<< "A", "B", "BShape" >>},
                          !.defaultPrim = dp, !.legacyMaterialScope = TRUE,
                          !.chainLen = n] :
             dp \in {"", "C", "A"}, n \in 0..MaxChain}

\* jobs in which the registry has no writer for some nodes, and some nodes
\* are not to be traversed
WriterConfigs ==
    {[BaseCfg EXCEPT !.dagPaths = r, !.noWriter = nw, !.noTraverse = nt,
                     !.mergeTransformAndShape = m, !.timeSamples = << 1 >>] :
        r \in {{<< "A" >>}, {<< "A", "B" >>}, {<< "A" >>, << "C" >>},
               {<< "A", "B", "BShape" >>, Chain(1)}},
        nw \in {{<< "A" >>}, {<< "A", "B" >>}, {<< "A" >>, << "A", "B" >>},
                {<< "C" >>, << "A", "B", "BShape" >>}},
        nt \in {{}, {<< "A", "B", "BShape" >>}, {<< "A", "ns:B" >>}},
        m \in BOOLEAN}
    \cup {[BaseCfg EXCEPT !.invalidPrim = {<< "A", "B" >>},
                          !.pruneChildren = pr, !.stripNamespaces = TRUE,
                          !.mergeTransformAndShape = m, !.timeSamples = << 1 >>] :
             pr \in {{}, {<< "A", "B" >>}}, m \in BOOLEAN}
    \cup {[BaseCfg EXCEPT !.invalidPrim = {<< "A", "ns:B" >>},
                          !.chaserNames = AllChasers, !.timeSamples = ts,
                          !.fault = f] :
             ts \in TimeLists,
             f \in {NoFault} \cup
                   {[phase |-> ph, who |-> n, t |-> 1] :
                       ph \in {"ExportFrame"}, n \in Range(AllChasers)}
                   \cup {[phase |-> "PostExport", who |-> n, t |-> DefaultTime] :
                            n \in Range(AllChasers)}}

\* a layer with a default prim that exists before the export
OldLayerWithDefault == [OldLayer EXCEPT !.defaultPrim = "Old"]

\* jobs that differ in what the default prim can be taken from, appending
\* or not
DefaultPrimConfigs ==
    {[BaseCfg EXCEPT !.defaultPrim = dp, !.legacyMaterialScope = legacy,
                     !.rootPrim = rp, !.exportRoots = er,
                     !.rootMap = (\E i \in DOMAIN er : er[i] # ""),
                     !.sceneCandidates = sc, !.stripNamespaces = sn,
                     !.append = a, !.dagPaths = r,
                     !.initialFiles = IF a
                                      THEN BaseCfg.dest :> OldLayerWithDefault
                                      ELSE EmptyMap] :
        dp \in {"", "C", "ns:B", "None"}, legacy \in BOOLEAN, rp \in {"", "R"},
        er \in {<< >>, << "" >>, << "", "C", "A" >>},
        sc \in {<< >>, << "A", "C" >>}, sn \in BOOLEAN, a \in BOOLEAN,
        r \in {{}, {<< "A" >>, << "C" >>}}}

\* the nodes that are not at or below one of the roots
Outside(c, roots) ==
    {n \in SceneNodes(c) : \A i \in DOMAIN roots : ~IsPrefix(<< roots[i] >>, n)}

\* jobs with a function that maps the export roots, which leaves the nodes
\* outside them without a writer
RootMapConfigs ==
    {[BaseCfg EXCEPT !.rootMap = TRUE, !.exportRoots = er, !.dagPaths = r,
                     !.noWriter = Outside(BaseCfg, er) \cup nw, !.invalidPrim = iv,
                     !.chaserNames = AllChasers, !.timeSamples = << 1 >>] :
        er \in {<< "A" >>, << "C" >>},
        r \in {{}, {<< "A" >>}, {<< "C" >>}, {<< "A", "B" >>}, {<< "A" >>, << "C" >>}},
        nw \in {{}, {<< "A" >>}},
        iv \in {{}, {<< "A" >>, << "A", "B" >>, << "A", "B", "BShape" >>,
                     << "A", "ns:B" >>}}}

LayerName(i) == "L" \o ToString(i)

RECURSIVE Orders(_)
\* the orders in which the render layers of a set are enumerated
Orders(S) ==
    IF S = {} THEN {<< >>}
    ELSE UNION {{<< l >> \o o : o \in Orders(S \ {l})} : l \in S}

\* the render layers of a scene, in each order; every scene has the default
\* render layer
LayerLists ==
    UNION {Orders(S \cup {DefaultRenderLayer}) :
              S \in SUBSET {LayerName(i) : i \in 1..MaxLayers}}

\* the members of the render layers: every node in every layer; one node
\* in every layer; nothing in the default layer; nothing in any layer; in
\* the default layer only a node that may be outside the export
MemberMaps(layers) ==
    {[l \in Range(layers) |-> {<< "A" >>, << "A", "B" >>, << "A", "ns:B" >>, << "C" >>}],
     [l \in Range(layers) |-> {<< "A", "B" >>}],
     [l \in Range(layers) |-> IF l = DefaultRenderLayer THEN {} ELSE {<< "A", "ns:B" >>}],
     [l \in Range(layers) |-> {}],
     [l \in Range(layers) |-> IF l = DefaultRenderLayer THEN {<< "C" >>}
                              ELSE {<< "A", "B" >>}]}

\* jobs that differ in the render layers
LayerConfigs ==
    UNION {{[BaseCfg EXCEPT !.renderLayerMode = "modelingVariant", !.layers = ls,
                            !.members = m, !.initialLayer = ls[1],
                            !.dagPaths = {<< "A" >>}, !.sceneCandidates = << "A" >>,
                            !.includeEmptyTransforms = keep,
                            !.legacyMaterialScope = legacy] :
               m \in MemberMaps(ls), keep \in BOOLEAN, legacy \in BOOLEAN} :
           ls \in LayerLists}
    \cup {[BaseCfg EXCEPT !.renderLayerMode = mode, !.initialLayer = LayerName(1),
                          !.layers = << DefaultRenderLayer, LayerName(1) >>,
                          !.fault = f] :
             mode \in {"defaultLayer", "currentLayer"},
             f \in {NoFault, [phase |-> "PostProcess", who |-> "", t |-> DefaultTime]}}

\* jobs with a root map function in modelingVariant mode
RootMapLayerConfigs ==
    {[BaseCfg EXCEPT !.rootMap = TRUE, !.exportRoots = << "A" >>,
                     !.dagPaths = {<< "A" >>},
                     !.noWriter = Outside(BaseCfg, << "A" >>),
                     !.renderLayerMode = "modelingVariant", !.layers = ls,
                     !.members = [l \in Range(ls) |-> {<< "A" >>}],
                     !.initialLayer = ls[1]] :
        ls \in LayerLists}
    \cup {[BaseCfg EXCEPT !.dagPaths = {<< "A" >>},
                          !.renderLayerMode = "modelingVariant", !.layers = ls,
                          !.members = [l \in Range(ls) |-> {<< "A" >>}],
                          !.initialLayer = ls[1],
                          !.fault = [phase |-> "open", who |-> "", t |-> DefaultTime]] :
             ls \in {<< DefaultRenderLayer >>, << DefaultRenderLayer, LayerName(1) >>}}

\* a layer that exists before the export and holds an empty Xform, an empty
\* Scope, a childless Xform with a payload, a childless Xform with a
\* reference, a childless Mesh and an Xform with a child
OldLayerToPrune ==
    [EmptyLayer EXCEPT
        !.prims = (<< "Old" >> :> NewPrim("Xform"))
                  @@ (<< "OldScope" >> :> NewPrim("Scope"))
                  @@ (<< "OldPayload" >> :> [NewPrim("Xform") EXCEPT !.payload = TRUE])
                  @@ (<< "OldRef" >> :> [NewPrim("Xform") EXCEPT !.refs = << "Old" >>])
                  @@ (<< "OldMesh" >> :> NewPrim("Mesh"))
                  @@ (<< "OldGroup" >> :> NewPrim("Xform"))
                  @@ (<< "OldGroup", "OldLeaf" >> :> NewPrim("Mesh")),
        !.rootOrder = << "Old", "OldScope", "OldPayload", "OldRef", "OldMesh",
                         "OldGroup" >>]

\* jobs that append to that layer, pruning or not
AppendPruneConfigs ==
    {[BaseCfg EXCEPT !.append = TRUE, !.initialFiles = BaseCfg.dest :> OldLayerToPrune,
                     !.includeEmptyTransforms = keep, !.dagPaths = {<< "C" >>},
                     !.chainLen = n, !.defaultPrim = dp,
                     !.legacyMaterialScope = TRUE] :
        keep \in BOOLEAN, n \in 0..1, dp \in {"", "OldScope"}}

\* jobs in modelingVariant mode with frames, chasers, empty groups to prune
\* and a package, started on each render layer
FinishConfigs ==
    UNION {{[BaseCfg EXCEPT !.renderLayerMode = "modelingVariant", !.layers = ls,
                            !.members = m, !.initialLayer = il,
                            !.includeEmptyTransforms = FALSE,
                            !.chaserNames = AllChasers, !.timeSamples = << 1 >>,
                            !.dest = d, !.fault = f] :
               m \in MemberMaps(ls), il \in Range(ls),
               d \in {File("scene", << "usd" >>), File("scene", << "usdz" >>)},
               f \in {NoFault,
                      [phase |-> "PostExport", who |-> ChaserName(2), t |-> DefaultTime]}} :
           ls \in {<< DefaultRenderLayer, LayerName(1) >>,
                   << LayerName(1), DefaultRenderLayer >>}}

---------------------------------------------------------------------------
(* UsdTransform3dMatrixOpHandler::editTransform3d                          *)
(* (lib/usdUfe/ufe/trf/UsdTransform3dMatrixOp.cpp): which Transform3d      *)
(* interface a scene item is edited through.  A call is the record edit:   *)
(* the item (a USD item has the ordered transform ops of its prim), the    *)
(* hint, the matrix op name the handler was set up with, the next handler  *)
(* of the chain, and what the call returned.                               *)

\* the longest transform-op stack
MaxOps == 3

TypeTransform == "transform"

\* the transform ops a stack is made of: two matrix ops and two others
XformOpKinds ==
    {[type |-> TypeTransform, name |-> "xformOp:transform"],
     [type |-> TypeTransform, name |-> "xformOp:transform:offset"],
     [type |-> "translate", name |-> "xformOp:translate"],
     [type |-> "rotateXYZ", name |-> "xformOp:rotateXYZ"]}

\* getTransform3dMatrixOpName returned nullptr
NoName == ""

\* _nextHandler is null
NoHandler == ""

\* a null Transform3d pointer
Null == [kind |-> "null"]

\* a handler that would take the first matrix op whatever its name
AnyMatrixOp(xformOps, opName) ==
    LET hits == {k \in DOMAIN xformOps : xformOps[k].type = TypeTransform}
    IN  IF hits = {} THEN Len(xformOps) + 1
        ELSE CHOOSE k \in hits : \A j \in hits : k <= j

\* findMatrixOp (lines 44-52): the place of the first matrix op with the
\* wanted name, Len(xformOps) + 1 (cend) when there is none
findMatrixOp(xformOps, opName) ==
    LET hits == {k \in DOMAIN xformOps :
                    /\ xformOps[k].type = TypeTransform
                    /\ (opName = NoName \/ opName = xformOps[k].name)}
    IN  IF hits = {} THEN Len(xformOps) + 1
        ELSE CHOOSE k \in hits : \A j \in hits : k <= j

\* findNonMatrix (lines 56-67): an op that is not a matrix op from i on
findNonMatrix(i, xformOps) ==
    \E k \in i..Len(xformOps) : xformOps[k].type # TypeTransform

\* _nextHandler ? _nextHandler->editTransform3d(item, hint) : nullptr, as
\* [value, asked]: what is returned and the calls made to the next handler;
\* the handler called "unable" returns a null pointer
NextHandlerEdit(e) ==
    IF e.nextHandler = NoHandler THEN [value |-> Null, asked |-> << >>]
    ELSE [value |-> IF e.nextHandler = "unable" THEN Null
                    ELSE [kind |-> e.nextHandler, item |-> e.item, hint |-> e.hint],
          asked |-> << [handler |-> e.nextHandler, item |-> e.item, hint |-> e.hint] >>]

\* editTransform3d (lines 445-492)
editTransform3d(e) ==
    IF ~e.item.usd THEN [value |-> Null, asked |-> << >>]
    ELSE LET xformOps == e.item.xformOps
             i        == findMatrixOp(xformOps, e.opName)
         IN  IF i = Len(xformOps) + 1 THEN NextHandlerEdit(e)
             ELSE IF \/ findNonMatrix(i, xformOps)
                     \/ e.hint = "RotatePivot"
                     \/ e.hint = "ScalePivot"
             THEN NextHandlerEdit(e)
             ELSE [value |-> [kind |-> "matrixOp", item |-> e.item, op |-> i],
                   asked |-> << >>]

\* no call of the handler
NoEdit == [returned |-> [value |-> Null, asked |-> << >>], pending |-> FALSE]

\* the calls: an item that is not a USD item or a USD item with a stack of
\* up to MaxOps ops, each hint, with and without a wanted op name, with no
\* next handler, with one that returns an interface and with one that does not
EditCalls ==
    {[item |-> it, hint |-> h, opName |-> on, nextHandler |-> nh,
      returned |-> NoEdit.returned, pending |-> TRUE] :
        it \in {[usd |-> FALSE, xformOps |-> << >>]}
               \cup {[usd |-> TRUE, xformOps |-> ops] :
                        ops \in UNION {[1..n -> XformOpKinds] : n \in 0..MaxOps}},
        h \in {"None", "Translate", "Rotate", "Scale", "RotatePivot", "ScalePivot"},
        on \in {NoName, "xformOp:transform:offset"},
        nh \in {NoHandler, "fallback", "unable"}}

\* the handler is called and returns
EditTransform3d ==
    /\ edit.pending
    /\ edit' = [edit EXCEPT !.returned = editTransform3d(edit), !.pending = FALSE]
    /\ UNCHANGED jobVars

Init ==
    /\ edit = NoEdit
    /\ InitWith(AppendPruneConfigs \cup FinishConfigs \cup ControlConfigs
                \cup FaultConfigs \cup DestConfigs \cup NameConfigs
                \cup PruneConfigs \cup WriterConfigs \cup DefaultPrimConfigs
                \cup RootMapConfigs \cup LayerConfigs \cup RootMapLayerConfigs)

HandlerInit == InitWith({BaseCfg}) /\ edit \in EditCalls

HandlerSpec == HandlerInit /\ [][EditTransform3d]_vars

Spec == Init /\ [][Next]_vars

---------------------------------------------------------------------------
(* What the properties below read from a state.                            *)

\* the positions of the log that hold the call op
At(op) == {i \in DOMAIN log : log[i].op = op}

\* Write returned false because the phase did
ReturnedFalse(phase) == \E i \in At("ReturnFalse") : log[i].who = << phase >>

\* the file system the running job started on
FilesAtStart(f) ==
    IF run = 1
    THEN (IF f \in DOMAIN cfg.initialFiles THEN cfg.initialFiles[f] ELSE NoOutput)
    ELSE (IF f \in DOMAIN firstOutput.files THEN firstOutput.files[f] ELSE NoOutput)

\* the layer as the job has it
LayerNow ==
    [prims |-> prims, rootOrder |-> rootOrder, samples |-> samples,
     defaultPrim |-> layerDefaultPrim, variantSet |-> variantSet]

---------------------------------------------------------------------------
(* C1 *)

\* C1: when two configured roots are ancestor and descendant of each other,
\* Write returns failure, and it has opened no layer and created no writer,
\* no chaser and no prim.
C1_OverlappingRootsFail ==
    (pc # "begin" /\ \E p1 \in cfg.dagPaths : \E p2 \in cfg.dagPaths :
                        IsProperPrefix(p1, p2)) =>
        /\ pc = "done"
        /\ result = "failure"
        /\ ~stageOpen
        /\ fileName = NoFile
        /\ At("OpenFile") = {} /\ At("CreatePrimWriter") = {} /\ At("CreateChaser") = {}
        /\ writers = << >> /\ chasers = << >> /\ prims = EmptyMap /\ samples = {}
        /\ \A f \in DOMAIN files : files[f] = FilesAtStart(f)

C1_Witness ==
    /\ pc = "done"
    /\ result = "failure"
    /\ << "A", "B" >> \in cfg.dagPaths
    /\ << "A", "B", "BShape" >> \in cfg.dagPaths

---------------------------------------------------------------------------
(* C2 *)

\* the nodes a writer with a valid prim was created for
NodesWithWriter ==
    {n \in {log[i].who : i \in At("CreatePrimWriter")} :
        n # World /\ n \notin cfg.noWriter /\ n \notin cfg.invalidPrim}

\* the two nodes may share an output path: merging applies and both extend
\* to one shape
MayShare(n1, n2) ==
    cfg.mergeTransformAndShape /\ ExtendToShape(cfg, n1) = ExtendToShape(cfg, n2)

\* C2: with namespace stripping, two nodes that were written have one
\* output path only if merging is enabled and both extend to the same
\* shape; and when two nodes with a writer come to one output path in any
\* other way, _BeginWriting and Write fail.
C2_OutputPathsDistinct ==
    cfg.stripNamespaces =>
        /\ \A n1 \in DOMAIN dagToUsd : \A n2 \in DOMAIN dagToUsd :
               (n1 # n2 /\ dagToUsd[n1] = dagToUsd[n2]) => MayShare(n1, n2)
        /\ (\E n1 \in NodesWithWriter : \E n2 \in NodesWithWriter :
               /\ n1 # n2
               /\ ~MayShare(n1, n2)
               /\ ConvertDagToUsdPath(cfg, overridePath, n1)
                      = ConvertDagToUsdPath(cfg, overridePath, n2))
           => (ReturnedFalse("BeginWriting") /\ result = "failure")

C2_Witness ==
    /\ cfg.stripNamespaces
    /\ cfg.mergeTransformAndShape
    /\ ReturnedFalse("BeginWriting")
    /\ dagToUsd[<< "A", "B" >>] = dagToUsd[<< "A", "B", "BShape" >>]
    /\ << "A", "ns:B" >> \in NodesWithWriter

---------------------------------------------------------------------------
(* C3 *)

\* the prim is a plain container: an Xform or a Scope with no child, no
\* payload and no reference
IsPlainContainer(p) ==
    /\ StageType(Job, p) \in {"Xform", "Scope"}
    /\ AllChildren(Job, p) = {}
    /\ ~SpecOf(Job, p).payload
    /\ SpecOf(Job, p).refs = NoRef

\* C3: when empties are not kept, after a successful job no plain container
\* is left on the stage, the default root excepted, and the default root
\* itself was not removed.
C3_NoEmptyContainerLeft ==
    (pc = "done" /\ result = "success" /\ ~cfg.includeEmptyTransforms) =>
        /\ \A p \in Traverse(Job) :
               IsPlainContainer(p) => p = << layerDefaultPrim >>
        /\ \A i \in At("RemovePrim") : log[i].who # << layerDefaultPrim >>

---------------------------------------------------------------------------
(* C4 *)

\* the times of the calls op, in the order of the log
TimesOf(op) == [i \in 1..Len(SelectSeq(log, LAMBDA e : e.op = op)) |->
                   SelectSeq(log, LAMBDA e : e.op = op)[i].t]

\* the k-th frame was written and the interrupt was requested after it
CancelledAfter(k) ==
    /\ cfg.cancelAt = k
    /\ k \in 1..Len(cfg.timeSamples)
    /\ pc \in {"finish", "done"}
    /\ \E i \in At("PerFrameCallback") : log[i].t = cfg.timeSamples[k]

\* C4: when the interrupt is requested after the k-th frame of n, the first
\* k samples and no others are written: the frames, the writers' writes, the
\* chasers' per-frame hooks and the authored values are those of the first k
\* samples; then _FinishWriting runs, and Write returns success unless a
\* hook of _FinishWriting itself returns false.
C4_CancelStopsFrames ==
    \A k \in 1..Len(cfg.timeSamples) :
        CancelledAfter(k) =>
            /\ frameIdx = k
            /\ TimesOf("WriteFrame") = SubSeq(cfg.timeSamples, 1, k)
            /\ TimesOf("PerFrameCallback") = SubSeq(cfg.timeSamples, 1, k)
            /\ \A i \in At("Write") \cup At("ExportFrame") :
                   log[i].t \in {DefaultTime} \cup Range(SubSeq(cfg.timeSamples, 1, k))
            /\ \A j \in 1..k : \A n \in Range(writers) :
                   \E i \in At("Write") : log[i].who = n /\ log[i].t = cfg.timeSamples[j]
            /\ \A j \in 1..k : \A n \in Range(chasers) :
                   \E i \in At("ExportFrame") :
                       log[i].who = << n >> /\ log[i].t = cfg.timeSamples[j]
            /\ {x[2] : x \in samples} \subseteq
                   {DefaultTime} \cup Range(SubSeq(cfg.timeSamples, 1, k))
            /\ pc = "done" =>
                   /\ Len(TimesOf("FinishWriting")) = 1
                   /\ At("ReleaseStage") # {} \/ cfg.fault.phase = "PostExport"
                   /\ result = "success" \/ cfg.fault.phase = "PostExport"

C4_Witness ==
    /\ CancelledAfter(1)
    /\ Len(cfg.timeSamples) = MaxSamples
    /\ chasers # << >>
    /\ pc = "done"
    /\ result = "success"
    /\ TimesOf("ExportFrame") = << cfg.timeSamples[1] >>

---------------------------------------------------------------------------
(* C5 *)

\* the positions of the log at which the layer's content was changed
LayerWrites ==
    At("Write") \cup At("CreatePrimWriter") \cup At("SetDefaultPrim")
    \cup At("RemovePrim") \cup At("WriteVariants") \cup At("AddVariant")

\* C5: when the destination is a package, the job writes to a temporary
\* layer whose name is not the package's and leaves the package alone until
\* _CreatePackage; the layer is saved after its last change, with the
\* default prim set, and before the package is made; the package holds that
\* saved layer; and after a successful Write the temporary file is gone.
C5_PackageFromTmpLayer ==
    packageName # NoFile =>
        /\ fileName # packageName
        /\ packageName = Destination
        /\ At("CreatePackage") = {} =>
               /\ stageOpen => fileName \in DOMAIN files
               /\ \A f \in DOMAIN files \ {fileName} : files[f] = FilesAtStart(f)
        /\ \A i \in At("CreatePackage") :
               /\ \E j \in At("Save") : j < i
               /\ \A j \in LayerWrites : \E k \in At("Save") : j < k /\ k < i
        /\ (At("CreatePackage") # {} /\ At("PackageError") = {}) =>
               /\ packageName \in DOMAIN files
               /\ files[packageName].package
               /\ files[packageName].layer = LayerNow
        /\ (pc = "done" /\ result = "success") =>
               /\ fileName \notin DOMAIN files
               /\ At("CreatePackage") # {}

C5_Witness ==
    /\ packageName # NoFile
    /\ pc = "done"
    /\ result = "success"
    /\ packageName \in DOMAIN files
    /\ files[packageName].package
    /\ files[packageName].layer.defaultPrim = "A"
    /\ fileName \notin DOMAIN files

---------------------------------------------------------------------------
(* C6 *)

\* C6: when the default render layer is one of the render layers, the
\* variant set _WriteVariants has made selects the variant named after it,
\* in the layer and in the saved file, wherever the default render layer
\* stands in the enumeration.
C6_DefaultLayerSelected ==
    (/\ At("WriteVariants") # {}
     /\ pc = "done"
     /\ variantSet.exists
     /\ DefaultRenderLayer \in Range(cfg.layers)) =>
        /\ variantSet.selection = DefaultRenderLayer
        /\ (result = "success" /\ Destination \in DOMAIN files) =>
               IF "package" \in DOMAIN files[Destination]
               THEN files[Destination].layer.variantSet.selection = DefaultRenderLayer
               ELSE files[Destination].variantSet.selection = DefaultRenderLayer

C6_Witness ==
    /\ At("WriteVariants") # {}
    /\ pc = "done"
    /\ result = "success"
    /\ variantSet.exists
    /\ Len(cfg.layers) = MaxLayers + 1
    /\ cfg.layers[1] = DefaultRenderLayer
    /\ Len(variantSet.variants) = MaxLayers + 1
    /\ variantSet.selection = DefaultRenderLayer

---------------------------------------------------------------------------
(* C7 *)

\* C7: a second job with the same arguments, time samples and scene leaves
\* what the first left: the same return value, the same destination file
\* and the same layer (prims, samples, default prim, variants).
C7_RerunSameOutput ==
    (run = 2 /\ pc = "done") => Output = firstOutput.out

C7_Witness ==
    /\ run = 2
    /\ pc = "done"
    /\ result = "success"
    /\ packageName # NoFile
    /\ fileName # firstOutput.tmp
    /\ Destination \in DOMAIN files
    /\ Output = firstOutput.out

---------------------------------------------------------------------------
(* C8 *)

\* the calls of the three phases, in the order of the log
Phases == SelectSeq(log, LAMBDA e : e.op \in {"BeginWriting", "WriteFrame", "FinishWriting"})

\* the phases of a job that ran m frames and, when fin, _FinishWriting
PhasesOf(m, fin) ==
    << Ev("BeginWriting", NoOne, DefaultTime) >>
    \o [i \in 1..m |-> Ev("WriteFrame", NoOne, cfg.timeSamples[i])]
    \o (IF fin THEN << Ev("FinishWriting", NoOne, DefaultTime) >> ELSE << >>)

\* C8: Write calls _BeginWriting once, then _WriteFrame once for each time
\* sample in the order of the list, then _FinishWriting once; after a failed
\* _BeginWriting neither a frame nor _FinishWriting runs, after a failed
\* frame nothing more runs; and Write returns success only when
\* _BeginWriting, every frame it ran and _FinishWriting returned true.
C8_PhaseOrder ==
    /\ pc = "begin" => Phases = << >>
    /\ pc = "frames" =>
           (Phases = PhasesOf(frameIdx, FALSE) /\ frameIdx < Len(cfg.timeSamples))
    /\ pc = "finish" => Phases = PhasesOf(frameIdx, FALSE)
    /\ pc = "done" => Phases = PhasesOf(frameIdx, At("FinishWriting") # {})
    /\ ReturnedFalse("BeginWriting") => (pc = "done" /\ Phases = PhasesOf(0, FALSE))
    /\ ReturnedFalse("WriteFrame") => (pc = "done" /\ At("FinishWriting") = {})
    /\ (pc \in {"finish", "done"} /\ At("ReturnFalse") = {} /\ cfg.cancelAt = 0) =>
           frameIdx = Len(cfg.timeSamples)
    /\ result = "success" =>
           /\ At("ReturnFalse") = {}
           /\ pc = "done"
           /\ Phases = PhasesOf(frameIdx, TRUE)
    /\ (pc = "done" /\ At("ReturnFalse") # {}) => result = "failure"

C8_Witness ==
    /\ pc = "done"
    /\ result = "success"
    /\ Len(cfg.timeSamples) = MaxSamples
    /\ cfg.timeSamples[1] > cfg.timeSamples[2]
    /\ Phases = PhasesOf(MaxSamples, TRUE)

---------------------------------------------------------------------------
(* C9 *)

\* the destination is anonymous or ends in one of the four extensions
KeepsItsName ==
    \/ cfg.dest.anon
    \/ (Len(cfg.dest.parts) >= 2
           /\ Last(cfg.dest.parts) \in {"usd", "usda", "usdc", "usdz"})

\* the extension the destination ends up with
FinalExtension ==
    IF KeepsItsName
    THEN (IF Len(cfg.dest.parts) >= 2 THEN Last(cfg.dest.parts) ELSE "")
    ELSE (IF cfg.compatibility = "appleArKit" THEN "usdz" ELSE "usd")

\* C9: when the destination's extension, given or supplied by the profile,
\* is the package extension and append is asked for, _BeginWriting fails
\* having made no temporary name and opened no layer.
C9_NoAppendToPackage ==
    (pc # "begin" /\ FinalExtension = "usdz" /\ cfg.append) =>
        /\ pc = "done"
        /\ result = "failure"
        /\ ReturnedFalse("BeginWriting")
        /\ At("MakeTmpStageName") = {}
        /\ At("OpenFile") = {}
        /\ fileName = NoFile
        /\ packageName = NoFile
        /\ ~stageOpen
        /\ \A f \in DOMAIN files : files[f] = FilesAtStart(f)

C9_Witness ==
    /\ pc = "done"
    /\ cfg.append
    /\ cfg.compatibility = "appleArKit"
    /\ cfg.dest = File("scene", << >>)
    /\ ReturnedFalse("BeginWriting")

---------------------------------------------------------------------------
(* C10 *)

\* the name the claim gives the destination
NameByRule ==
    IF KeepsItsName
    THEN cfg.dest
    ELSE [cfg.dest EXCEPT !.parts =
             Append(@, IF cfg.compatibility = "appleArKit" THEN "usdz" ELSE "usd")]

\* C10: an anonymous destination and one with the extension usd, usda, usdc
\* or usdz is used as it is; any other gets '.' and the fallback extension,
\* usdz for the ARKit profile and usd for every other profile.
C10_EffectiveName ==
    /\ FileNameWithExt(cfg, cfg.dest) = NameByRule
    /\ fileName # NoFile =>
           (IF packageName # NoFile THEN packageName ELSE fileName) = NameByRule

C10_Witness ==
    /\ cfg.dest = File("scene", << "txt" >>)
    /\ cfg.compatibility = "appleArKit"
    /\ packageName = File("scene", << "txt", "usdz" >>)
    /\ pc = "done"
    /\ result = "success"

---------------------------------------------------------------------------
(* C11 *)

\* the three hooks of a chaser
ChaserHooks == {"ExportDefault", "ExportFrame", "PostExport"}

\* the function of the job that calls the hook
PhaseOfHook(hook) ==
    IF hook = "ExportDefault" THEN "BeginWriting"
    ELSE IF hook = "ExportFrame" THEN "WriteFrame"
    ELSE "FinishWriting"

\* the positions of the log at which a chaser's hook returned false
FailedHookAt ==
    {i \in DOMAIN log :
        /\ cfg.fault.phase \in ChaserHooks
        /\ log[i] = Ev(cfg.fault.phase, << cfg.fault.who >>, cfg.fault.t)}

\* C11: once a chaser's ExportDefault, ExportFrame or PostExport has
\* returned false, the job calls nothing more (no hook of a later chaser,
\* no per-frame callback, no frame, no _FinishWriting after a failed
\* default or frame hook, no save after a failed PostExport) except to set
\* the host's time back after a failed frame; Write returns failure; and
\* the stage is still open and holds every value written before.
C11_HookFailureAborts ==
    \A i \in FailedHookAt :
        /\ pc = "done"
        /\ result = "failure"
        /\ ReturnedFalse(PhaseOfHook(cfg.fault.phase))
        /\ \A j \in (i + 1)..Len(log) :
               \/ log[j].op = "ReturnFalse"
               \/ /\ log[j] = Ev("viewFrame", NoOne, oldCurTime)
                  /\ cfg.fault.phase = "ExportFrame"
        /\ \A j \in DOMAIN log :
               /\ log[j].op \in ChaserHooks => j <= i
               /\ log[j].op = "PerFrameCallback" => log[j].t # log[i].t
               /\ log[j].op = "WriteFrame" => j < i
               /\ log[j].op = "FinishWriting" => (j < i /\ cfg.fault.phase = "PostExport")
               /\ log[j].op \in {"Save", "CreatePackage", "ReleaseStage", "DeleteFile"} => FALSE
        /\ stageOpen
        /\ \A j \in At("Write") :
               << ConvertDagToUsdPath(cfg, overridePath, log[j].who), log[j].t >> \in samples

C11_Witness ==
    /\ FailedHookAt # {}
    /\ cfg.fault = [phase |-> "ExportFrame", who |-> ChaserName(1), t |-> 1]
    /\ cfg.timeSamples = [i \in 1..MaxSamples |-> i]
    /\ chasers = AllChasers
    /\ pc = "done"
    /\ frameIdx = 1
    /\ << << "A" >>, 1 >> \in samples
    /\ hostTime = InitialTime

---------------------------------------------------------------------------
(* C12 *)

\* the configured chaser names for which the registry gives a chaser
Pipeline == SelectSeq(cfg.chaserNames, LAMBDA n : n \notin cfg.noCreate)

\* the names of the events of the sequence
NamesOf(evs) == [i \in 1..Len(evs) |-> evs[i].who[1]]

\* the chasers whose hook was called for the time t, in the order of the calls
HookCalls(hook, t) == NamesOf(SelectSeq(log, LAMBDA e : e.op = hook /\ e.t = t))

\* no hook of a chaser of the pipeline returns false
NoHookFails == cfg.fault.phase \notin ChaserHooks \/ cfg.fault.who \notin Range(Pipeline)

\* C12: the registry is asked for every configured name in order; once
\* _BeginWriting has made the chasers, mChasers is the configured names a
\* chaser was created for, in their order; when no hook of those returns
\* false, ExportDefault, ExportFrame of every frame and PostExport are
\* called on exactly them in that order, and Write returns success although
\* a name gave no chaser.
C12_UncreatedChaserSkipped ==
    At("CreateChaser") # {} =>
        /\ HookCalls("CreateChaser", DefaultTime) = cfg.chaserNames
        /\ chasers = Pipeline
        /\ NoHookFails =>
               /\ ~ReturnedFalse("BeginWriting")
               /\ HookCalls("ExportDefault", DefaultTime) = Pipeline
               /\ \A k \in 1..frameIdx :
                      HookCalls("ExportFrame", cfg.timeSamples[k]) = Pipeline
               /\ At("FinishWriting") # {} =>
                      HookCalls("PostExport", DefaultTime) = Pipeline
               /\ pc = "done" => result = "success"

C12_Witness ==
    /\ cfg.chaserNames = AllChasers
    /\ cfg.noCreate = {ChaserName(1)}
    /\ cfg.fault.who = ChaserName(1)
    /\ Len(cfg.timeSamples) = MaxSamples
    /\ chasers = Pipeline
    /\ Len(chasers) = MaxChasers - 1
    /\ HookCalls("ExportFrame", cfg.timeSamples[MaxSamples]) = Pipeline
    /\ HookCalls("PostExport", DefaultTime) = Pipeline
    /\ pc = "done"
    /\ result = "success"

---------------------------------------------------------------------------
(* C13 *)

\* the nodes a writer was requested for
Requested == {log[i].who : i \in At("CreatePrimWriter")}

\* the requested nodes the registry gave no writer for
RequestedInVain == {n \in Requested : n = World \/ n \in cfg.noWriter}

\* what a writer of a node is asked to do
WriterOps == {"CheckNameClashes", "Write", "OnWritePrim", "WriterPostExport"}

\* the node is an ancestor of a configured root, a configured root, or
\* below one
InScope(n) == \E r \in cfg.dagPaths : IsPrefix(n, r) \/ IsPrefix(r, n)

\* the loop over the scene has ended and _BeginWriting has gone on
TraversalEnded == At("ExportShadingEngines") # {}

\* the loop over the scene has ended and _BeginWriting has returned false
\* because a root map function is there and no node was mapped
NothingMapped ==
    /\ cfg.rootMap
    /\ dagToUsd = EmptyMap
    /\ At("ChangeUpAxisAndUnits") # {}
    /\ ~TraversalEnded

\* C13: a node the registry gives no writer for is not in the writer list,
\* not in the node-to-path map and not in the path-to-node map of the name
\* check, nothing is written for it, the loop over the scene does not
\* return at it (_BeginWriting returns right after its request only when
\* the loop has ended with nothing mapped and a root map function is
\* there), and each of its children that is in scope and to be traversed
\* is visited.
C13_NoWriterSkipped ==
    \A n \in RequestedInVain :
        /\ n \notin Range(writers)
        /\ n \notin DOMAIN dagToUsd
        /\ \A p \in DOMAIN usdToDag : usdToDag[p] # n
        /\ \A i \in DOMAIN log : log[i].op \in WriterOps => log[i].who # n
        /\ \A i \in At("ReturnFalse") :
               log[i - 1] = Ev("CreatePrimWriter", n, DefaultTime) => NothingMapped
        /\ (TraversalEnded \/ NothingMapped) =>
               \A ch \in Children(cfg, n) :
                   (InScope(ch) /\ ch \notin cfg.noTraverse) => ch \in Requested

C13_Witness ==
    /\ cfg.noWriter = {<< "A" >>, << "A", "B" >>}
    /\ cfg.dagPaths = {<< "A" >>}
    /\ cfg.noTraverse = {}
    /\ RequestedInVain = {World, << "A" >>, << "A", "B" >>}
    /\ << "A", "B", "BShape" >> \in DOMAIN dagToUsd
    /\ << "A", "ns:B" >> \in DOMAIN dagToUsd
    /\ pc = "done"
    /\ result = "success"

---------------------------------------------------------------------------
(* C14 *)

\* C14: when _CreatePackage has failed, the layer saved before it is still
\* in its file, with the content it was saved with, after _FinishWriting
\* has returned.
C14_SavedLayerKept ==
    (At("PackageError") # {} /\ At("Save") # {} /\ pc = "done") =>
        /\ fileName \in DOMAIN files
        /\ files[fileName] = LayerNow

---------------------------------------------------------------------------
(* C15 *)

\* the layer the job started from: the destination's when appending
StartLayer ==
    IF cfg.append /\ "rootOrder" \in DOMAIN FilesAtStart(Destination)
    THEN FilesAtStart(Destination)
    ELSE EmptyLayer

\* the nodes written at the default time, in the order of the traversal
WrittenNodes == SelectSeq(DagOrder(cfg), LAMBDA n : n \in DOMAIN dagToUsd)

\* the stage had a root prim when _FinishWriting began
HadRootPrim == StartLayer.rootOrder # << >> \/ WrittenNodes # << >>

\* the first root prim the stage had when _FinishWriting began
FirstRootPrim ==
    IF StartLayer.rootOrder # << >> THEN StartLayer.rootOrder[1]
    ELSE dagToUsd[WrittenNodes[1]][1]

\* the root prims that reference another prim
VariantRoots == {p \in DOMAIN prims : Len(p) = 1 /\ prims[p].refs # NoRef}

\* the calls of SetDefaultPrim, in order
DefaultPrimsSet == HookCalls("SetDefaultPrim", DefaultTime)

\* C15: after _FinishWriting, when mArgs.defaultPrim is not empty the
\* layer's default prim was set to it, unless it is None and the default
\* prim was left as it was; when it is empty and the stage had a root prim,
\* the default prim was set to the variant root if _WriteVariants ran and
\* to the first root prim otherwise; when it is empty and there was no
\* root prim, the default prim was left as it was.
C15_DefaultPrimRule ==
    (At("FinishWriting") # {} /\ pc = "done") =>
        IF defaultPrimArg = "None" \/ (defaultPrimArg = "" /\ ~HadRootPrim)
        THEN /\ DefaultPrimsSet = << >>
             /\ layerDefaultPrim = StartLayer.defaultPrim
        ELSE IF defaultPrimArg # ""
        THEN /\ DefaultPrimsSet = << defaultPrimArg >>
             /\ layerDefaultPrim = defaultPrimArg
        ELSE IF At("WriteVariants") # {}
        THEN /\ VariantRoots = {<< layerDefaultPrim >>}
             /\ DefaultPrimsSet = << layerDefaultPrim >>
        ELSE /\ DefaultPrimsSet = << FirstRootPrim >>
             /\ layerDefaultPrim = FirstRootPrim

C15_Witness ==
    /\ At("WriteVariants") # {}
    /\ pc = "done"
    /\ result = "success"
    /\ defaultPrimArg = ""
    /\ rootOrder = << "_BaseModel_", "A" >>
    /\ layerDefaultPrim = "A"

---------------------------------------------------------------------------
(* C16 *)

\* the export roots that are not the empty string
NamedExportRoots == SelectSeq(cfg.exportRoots, LAMBDA r : r # "")

\* the candidates, as the claim lists them
Candidates ==
    IF cfg.rootPrim # "" THEN << cfg.rootPrim >>
    ELSE IF NamedExportRoots # << >> THEN NamedExportRoots
    ELSE cfg.sceneCandidates

\* C16 as stated: once _BeginWriting has run, a default prim that was not
\* configured is the first candidate whenever there is one.
C16_AlwaysResolved ==
    (pc # "begin" /\ cfg.defaultPrim = "" /\ Candidates # << >>) =>
        defaultPrimArg = Candidates[1]

\* C16, amended: once _BeginWriting has run, a configured default prim is
\* the configured name made a prim name, whatever the candidates are; a
\* default prim that was not configured is the first candidate made a prim
\* name when the legacy material scope is off and there is a candidate,
\* and stays empty when the legacy material scope is on or there is no
\* candidate; the candidates are the root prim's name if set, else the
\* non-empty export roots in their order if any, else what the scene query
\* returns.
C16_ResolvedUnlessLegacy ==
    pc # "begin" =>
        defaultPrimArg =
            IF cfg.defaultPrim # ""
            THEN MayaNodeNameToPrimName(cfg.defaultPrim, cfg.stripNamespaces)
            ELSE IF ~cfg.legacyMaterialScope /\ Candidates # << >>
            THEN MayaNodeNameToPrimName(Candidates[1], cfg.stripNamespaces)
            ELSE ""

C16_Witness ==
    /\ cfg.defaultPrim = ""
    /\ ~cfg.legacyMaterialScope
    /\ cfg.rootPrim = ""
    /\ cfg.exportRoots = << "", "C", "A" >>
    /\ cfg.sceneCandidates = << "A", "C" >>
    /\ pc = "done"
    /\ result = "success"
    /\ defaultPrimArg = "C"
    /\ layerDefaultPrim = "C"

---------------------------------------------------------------------------
(* C17 *)

\* the layer was opened, so the traversal ran
TraversalRan == At("ChangeUpAxisAndUnits") # {}

\* C17: with a root map function, when the traversal has mapped no node,
\* _BeginWriting returns false and Write fails, and neither the shading
\* export nor the post-processing nor the model hierarchy nor the creation
\* of a chaser has been reached; with a root map function and a mapped
\* node, and without a root map function whatever the map holds,
\* _BeginWriting goes on to the shading export.
C17_EmptyRootMapFails ==
    (TraversalRan /\ (At("ReturnFalse") = {} \/ dagToUsd = EmptyMap)) =>
        IF cfg.rootMap /\ dagToUsd = EmptyMap
        THEN /\ ReturnedFalse("BeginWriting")
             /\ pc = "done"
             /\ result = "failure"
             /\ At("ExportShadingEngines") = {}
             /\ At("PostProcess") = {}
             /\ At("MakeModelHierarchy") = {}
             /\ At("CreateChaser") = {}
             /\ chasers = << >>
        ELSE At("ExportShadingEngines") # {}

C17_Witness ==
    /\ cfg.rootMap
    /\ cfg.dagPaths = {<< "A" >>}
    /\ Requested # {}
    /\ Len(writers) > 1
    /\ dagToUsd = EmptyMap
    /\ stageOpen
    /\ ReturnedFalse("BeginWriting")

---------------------------------------------------------------------------
(* C18 *)

RECURSIVE ExtrasOf(_)
\* the extra paths of the chasers of the list, one chaser after the other
ExtrasOf(names) ==
    IF names = << >> THEN << >>
    ELSE ExtraPrimsPaths(names[1]) \o ExtrasOf(SubSeq(names, 2, Len(names)))

\* the chasers whose PostExport was called and returned true
PostExported ==
    SelectSeq(HookCalls("PostExport", DefaultTime),
              LAMBDA n : ~(cfg.fault.phase = "PostExport" /\ cfg.fault.who = n))

\* C18: _extrasPrimsPaths is empty until _FinishWriting; from then on it
\* holds the extra paths of the chasers whose PostExport has returned
\* true, in the order of mChasers, and nothing else; after a successful
\* _FinishWriting these are all the chasers that were created.
C18_ExtrasFromChasers ==
    /\ extras = ExtrasOf(PostExported)
    /\ At("FinishWriting") = {} => extras = << >>
    /\ (pc = "done" /\ result = "success") =>
           /\ PostExported = Pipeline
           /\ extras = ExtrasOf(Pipeline)

C18_Witness ==
    /\ pc = "done"
    /\ result = "success"
    /\ chasers = AllChasers
    /\ Len(extras) > MaxChasers
    /\ extras = ExtrasOf(AllChasers)

---------------------------------------------------------------------------
(* C19 *)

\* C19: when Write has returned failure, the job has not called Save on
\* its layer, has not called _CreatePackage and has not deleted a file;
\* for a package destination the package's file is as it was before the
\* job, and the temporary layer, once opened, is still open and its file
\* still exists.
C19_FailureCommitsNothing ==
    result = "failure" =>
        /\ At("Save") = {}
        /\ At("CreatePackage") = {}
        /\ At("DeleteFile") = {}
        /\ At("ReleaseStage") = {}
        /\ packageName # NoFile =>
               /\ \A f \in DOMAIN files \ {fileName} : files[f] = FilesAtStart(f)
               /\ Destination \notin DOMAIN files => FilesAtStart(Destination) = NoOutput
               /\ TraversalRan => (stageOpen /\ fileName \in DOMAIN files)

C19_Witness ==
    /\ result = "failure"
    /\ packageName # NoFile
    /\ cfg.fault.phase = "PostExport"
    /\ ReturnedFalse("FinishWriting")
    /\ samples # {}
    /\ fileName \in DOMAIN files

---------------------------------------------------------------------------
(* C20 *)

\* the nodes something was done for during the traversal
Touched ==
    Requested \cup Range(writers) \cup DOMAIN dagToUsd
    \cup {usdToDag[p] : p \in DOMAIN usdToDag}
    \cup {log[i].who : i \in {j \in DOMAIN log : log[j].op \in WriterOps}}

\* C20: a writer is requested, and anything is written or recorded, only
\* for a node that is an ancestor of a configured root, a configured root
\* or below a configured root; so nothing at or below a node that is none
\* of these is visited.
C20_OnlyInScopeVisited ==
    /\ \A n \in Touched : InScope(n)
    /\ \A n \in SceneNodes(cfg) :
           ~InScope(n) => \A d \in Touched : ~IsPrefix(n, d)

C20_Witness ==
    /\ cfg.dagPaths = {<< "A", "B" >>}
    /\ Requested = {World, << "A" >>, << "A", "B" >>, << "A", "B", "BShape" >>}
    /\ << "A", "ns:B" >> \in SceneNodes(cfg)
    /\ << "C" >> \in SceneNodes(cfg)
    /\ << "A", "B", "BShape" >> \in DOMAIN dagToUsd
    /\ pc = "done"
    /\ result = "success"

---------------------------------------------------------------------------
(* C21 *)

\* how many times a writer was requested for the node
Offers(n) == Cardinality({i \in At("CreatePrimWriter") : log[i].who = n})

\* the context does not want the node traversed
NotTraversed(n) == Len(n) > 0 /\ n \in cfg.noTraverse

\* the node's writer asks for its children to be pruned
PrunesChildren(n) == n # World /\ n \notin cfg.noWriter /\ n \in cfg.pruneChildren

\* the node, or a node above it, is pruned by the context or by a writer
CutOff(n) ==
    \/ NotTraversed(n)
    \/ \E k \in 0..(Len(n) - 1) :
           NotTraversed(SubSeq(n, 1, k)) \/ PrunesChildren(SubSeq(n, 1, k))

\* C21: no node is offered to the writer registry twice; and when the loop
\* over the scene has run to its end, a node was offered once if it is an
\* ancestor of a configured root, a configured root or below one, and
\* neither it nor a node above it was pruned by _NeedToTraverse or by a
\* writer's ShouldPruneChildren, and was not offered otherwise: so below an
\* ancestor of a root only the children that lead to a root or are one are
\* offered.
C21_InScopeOfferedOnce ==
    /\ \A n \in SceneNodes(cfg) : Offers(n) <= 1
    /\ (TraversalEnded \/ NothingMapped) =>
           \A n \in SceneNodes(cfg) :
               Offers(n) = IF InScope(n) /\ ~CutOff(n) THEN 1 ELSE 0

C21_Witness ==
    /\ cfg.dagPaths = {<< "A", "B", "BShape" >>, Chain(1)}
    /\ cfg.noTraverse = {<< "A", "ns:B" >>}
    /\ TraversalEnded
    /\ Offers(World) = 1
    /\ Offers(<< "A" >>) = 1
    /\ Offers(<< "A", "B" >>) = 1
    /\ Offers(<< "A", "B", "BShape" >>) = 1
    /\ Offers(<< "A", "ns:B" >>) = 0
    /\ Offers(Chain(1)) = 1
    /\ pc = "done"

---------------------------------------------------------------------------
(* C22 *)

\* the events logged for the node's writer during the traversal
TraversalOps(n) ==
    {i \in At("CheckNameClashes") \cup At("Write") \cup At("OnWritePrim") :
        log[i].who = n /\ log[i].t = DefaultTime}

\* the writer list has not been cleared by _FinishWriting
WritersKept == At("ReleaseStage") = {}

\* C22 (as the code has it): a writer that CreatePrimWriter produced is
\* recorded in the writer list first; if its prim is valid, its output path
\* is then checked, and only after a successful check are the default
\* values written and, after them, the model-kind processor notified; a
\* collision returns false with the writer recorded and nothing written for
\* it; a writer without a valid prim is recorded and neither checked nor
\* written; the children of a writer that asks for it are never offered.
C22_RecordCheckWriteNotify ==
    \A i \in At("CreatePrimWriter") :
        HasWriter(cfg, log[i].who) =>
            /\ WritersKept => log[i].who \in Range(writers)
            /\ ~HasValidPrim(cfg, log[i].who) => TraversalOps(log[i].who) = {}
            /\ HasValidPrim(cfg, log[i].who) =>
                   /\ i + 2 <= Len(log)
                   /\ log[i + 1] = Ev("CheckNameClashes", log[i].who, DefaultTime)
                   /\ \/ /\ log[i + 2].op = "ReturnFalse"
                         /\ TraversalOps(log[i].who) = {i + 1}
                      \/ /\ i + 3 <= Len(log)
                         /\ log[i + 2] = Ev("Write", log[i].who, DefaultTime)
                         /\ log[i + 3] = Ev("OnWritePrim", log[i].who, DefaultTime)
                         /\ TraversalOps(log[i].who) = {i + 1, i + 2, i + 3}
            /\ PrunesChildren(log[i].who) =>
                   \A n \in SceneNodes(cfg) :
                       IsProperPrefix(log[i].who, n) => Offers(n) = 0

\* a collision: the writer is in the list, checked, and wrote nothing, while
\* an earlier writer was checked, then written, then notified
C22_Witness ==
    /\ result = "failure"
    /\ WritersKept
    /\ \E n \in Range(writers) :
           /\ TraversalOps(n) \subseteq At("CheckNameClashes")
           /\ TraversalOps(n) # {}
    /\ \E n \in Range(writers) : Cardinality(TraversalOps(n)) = 3

\* C22 (as the specification has it): the default values are written
\* before the output path is checked, and the writer is recorded only after
\* the check.
C22_WriteCheckRecord ==
    \A i \in At("CheckNameClashes") :
        /\ i > 1
        /\ log[i - 1] = Ev("Write", log[i].who, DefaultTime)
        /\ (WritersKept /\ i < Len(log) /\ log[i + 1].op = "ReturnFalse") =>
               log[i].who \notin Range(writers)

---------------------------------------------------------------------------
(* C23 *)

\* the events of the loop over the scene
TraversalEvents ==
    At("CreatePrimWriter") \cup At("CheckNameClashes") \cup At("OnWritePrim")
    \cup {i \in At("Write") : log[i].t = DefaultTime}

\* the step of _BeginWriting that the configuration makes return false
FailedStep == {ph \in {"PostProcess", "MakeModelHierarchy"} : cfg.fault.phase = ph}

\* C23: the shading export comes after every event of the traversal, and
\* by then every in-scope node that was not cut off has been offered; the
\* post-processing directly follows the shading export; the model hierarchy
\* directly follows a post-processing that succeeded; a chaser is created
\* only after a model hierarchy that succeeded; when the post-processing or
\* the model hierarchy returns false, _BeginWriting returns false, Write
\* fails, no later step is taken and no chaser is created or run.
C23_BeginWritingOrder ==
    /\ \A i \in At("ExportShadingEngines") :
           /\ \A j \in TraversalEvents : j < i
           /\ \A n \in SceneNodes(cfg) :
                  (InScope(n) /\ ~CutOff(n)) =>
                      \E j \in 1..(i - 1) : log[j] = Ev("CreatePrimWriter", n, DefaultTime)
    /\ \A i \in At("PostProcess") : i > 1 /\ log[i - 1].op = "ExportShadingEngines"
    /\ \A i \in At("MakeModelHierarchy") :
           /\ i > 1
           /\ log[i - 1].op = "PostProcess"
           /\ cfg.fault.phase # "PostProcess"
    /\ \A i \in At("CreateChaser") \cup At("ExportDefault") :
           /\ \E j \in At("MakeModelHierarchy") : j < i
           /\ FailedStep = {}
    /\ \A ph \in FailedStep :
           \A i \in At(ph) :
               /\ i < Len(log)
               /\ log[i + 1] = Ev("ReturnFalse", << "BeginWriting" >>, DefaultTime)
               /\ result = "failure"
               /\ chasers = << >>
               /\ At("CreateChaser") = {}
               /\ At("WriteFrame") = {}

\* the model hierarchy fails with chasers configured
C23_Witness ==
    /\ cfg.fault.phase = "MakeModelHierarchy"
    /\ cfg.chaserNames # << >>
    /\ At("MakeModelHierarchy") # {}
    /\ At("CreateChaser") = {}
    /\ result = "failure"

---------------------------------------------------------------------------
(* C24 *)

\* the events that recorded a writer with a valid prim
ValidWriterEvents ==
    SelectSeq(log, LAMBDA e : /\ e.op = "CreatePrimWriter"
                              /\ HasWriter(cfg, e.who)
                              /\ HasValidPrim(cfg, e.who))

\* the nodes whose writer was recorded with a valid prim, in the order the
\* traversal met them
ValidWriters == [k \in DOMAIN ValidWriterEvents |-> ValidWriterEvents[k].who]

\* a chaser of the pipeline returns false from ExportFrame for the time t
FrameHookFails(t) ==
    \E k \in DOMAIN Pipeline : HookFails(cfg, "ExportFrame", Pipeline[k], t)

\* the chasers of the pipeline whose ExportFrame is called for the time t:
\* all of them, or those up to the first whose hook returns false
FrameHooks(t) ==
    IF FrameHookFails(t)
    THEN SubSeq(Pipeline, 1,
                CHOOSE k \in DOMAIN Pipeline :
                    /\ HookFails(cfg, "ExportFrame", Pipeline[k], t)
                    /\ \A j \in 1..(k - 1) :
                           ~HookFails(cfg, "ExportFrame", Pipeline[j], t))
    ELSE Pipeline

\* the events of the frame begun at position i of the log are as
\* _WriteFrame orders them: the writers w, then the hooks, then the callback
FrameInOrder(i, t, w, hooks) ==
    /\ i + Len(w) + Len(hooks) + 1 <= Len(log)
    /\ \A k \in DOMAIN w : log[i + k] = Ev("Write", w[k], t)
    /\ \A k \in DOMAIN hooks :
           log[i + Len(w) + k] = Ev("ExportFrame", << hooks[k] >>, t)
    /\ IF FrameHookFails(t)
       THEN log[i + Len(w) + Len(hooks) + 1].op = "ReturnFalse"
       ELSE log[i + Len(w) + Len(hooks) + 1] = Ev("PerFrameCallback", NoOne, t)

\* C24: in every frame, each recorded writer whose prim is valid writes at
\* the frame's time, in the order of the traversal, before any chaser's
\* ExportFrame; the chasers' ExportFrame are called in the order of the
\* pipeline with the same time, up to the first that returns false; the
\* per-frame callback follows the last hook when none returned false, and
\* is not called for the frame otherwise; no write at a frame's time, no
\* ExportFrame and no callback happens outside that order.
C24_FrameOrder ==
    /\ \A i \in At("WriteFrame") :
           FrameInOrder(i, log[i].t, ValidWriters, FrameHooks(log[i].t))
    /\ Cardinality({i \in At("Write") : log[i].t # DefaultTime})
           = Cardinality(At("WriteFrame")) * Len(ValidWriters)
    /\ \A i \in At("ExportFrame") \cup At("PerFrameCallback") :
           \E j \in At("WriteFrame") :
               /\ j < i
               /\ i <= j + Len(ValidWriters) + Len(FrameHooks(log[j].t)) + 1
    /\ \A i \in At("PerFrameCallback") : ~FrameHookFails(log[i].t)

\* a frame with three writers, one of them without a valid prim, and two
\* chasers
C24_Witness ==
    /\ Len(ValidWriters) >= 2
    /\ cfg.invalidPrim \cap Range(writers) # {}
    /\ Len(Pipeline) = 2
    /\ \E i \in At("WriteFrame") :
           log[i + Len(ValidWriters) + 3] = Ev("PerFrameCallback", NoOne, log[i].t)

---------------------------------------------------------------------------
(* C25 *)

\* the place of a step in _FinishWriting
FinishRank(op) ==
    CASE op \in {"WriteVariants", "AddVariant", "SetRenderLayer"} -> 1
      [] op = "SetDefaultPrim"                                    -> 3
      [] op = "WriterPostExport"                                  -> 4
      [] op = "PostExport"                                        -> 5
      [] op = "PostCallback"                                      -> 6
      [] op \in {"PruneEmpties", "removeEmptyPrims", "RemovePrim"} -> 7
      [] op = "RestoreUpAxisAndUnits"                             -> 8
      [] op = "Save"                                              -> 9
      [] op \in {"CreatePackage", "PackageError"}                 -> 10
      [] op = "ReleaseStage"                                      -> 11
      [] op = "DeleteFile"                                        -> 12
      [] op = "ReturnFalse"                                       -> 13
      [] OTHER                                                    -> 0

\* the events of _FinishWriting
FinishEvents == {i \in DOMAIN log : \E f \in At("FinishWriting") : f < i}

\* the switches of render layer made in _FinishWriting
FinishSwitches == FinishEvents \cap At("SetRenderLayer")

\* the nodes whose writer was recorded, in the order the traversal met them
RecordedWriters ==
    SelectSeq(log, LAMBDA e : e.op = "CreatePrimWriter" /\ HasWriter(cfg, e.who))

\* the writers whose PostExport was called, in the order of the calls
PostExportedWriters == SelectSeq(log, LAMBDA e : e.op = "WriterPostExport")

\* C25: the steps of _FinishWriting are never out of this order: the
\* variants, the restoring of the render layer, the default prim, the
\* PostExport of every writer in the order of the traversal, the PostExport
\* of the chasers in the order of the pipeline, the post callback, the
\* pruning, the restoring of up axis and units, the save, the packaging, the
\* release of the stage and of the writers, the deletion of the temporary
\* file. The last switch of render layer is to the layer the job started
\* on, and no variant is added after it but that layer's own. What is saved
\* is the pruned layer, and the temporary file is deleted with the stage
\* and the writers released.
C25_FinishOrder ==
    /\ \A i \in FinishEvents :
           /\ FinishRank(log[i].op) > 0
           /\ \A j \in FinishEvents : i < j => FinishRank(log[i].op) <= FinishRank(log[j].op)
    /\ \A i \in FinishSwitches :
           (\A j \in FinishSwitches : j <= i) =>
               /\ log[i].who = << savedLayerName >>
               /\ \A j \in At("WriteVariants") \cup At("AddVariant") :
                      j < i \/ (j = i + 1 /\ log[j] = Ev("AddVariant", log[i].who, DefaultTime))
    /\ At("PostCallback") # {} =>
           /\ Len(PostExportedWriters) = Len(RecordedWriters)
           /\ \A k \in DOMAIN RecordedWriters :
                  PostExportedWriters[k].who = RecordedWriters[k].who
           /\ HookCalls("PostExport", DefaultTime) = Pipeline
           /\ At("RestoreUpAxisAndUnits") # {}
           /\ At("ReleaseStage") # {}
           /\ pc = "done"
    /\ \A i \in At("Save") :
           /\ \A j \in At("RemovePrim") : j < i
           /\ \A j \in At("CreatePackage") \cup At("DeleteFile") : i < j
           /\ At("DeleteFile") = {} =>
                  /\ fileName \in DOMAIN files
                  /\ files[fileName] = LayerNow
    /\ \A i \in At("DeleteFile") :
           /\ \E j \in At("ReleaseStage") : j < i
           /\ ~stageOpen
           /\ writers = << >>
           /\ packageName # NoFile

\* a packaged export with variants, chasers and pruned prims
C25_Witness ==
    /\ At("DeleteFile") # {}
    /\ At("Save") # {}
    /\ At("RemovePrim") # {}
    /\ At("PostExport") # {}
    /\ At("WriterPostExport") # {}
    /\ result = "success"

---------------------------------------------------------------------------
(* C26 *)

\* the host's render layer when the running job began is known to be the
\* scene's initial one: for the first job, and for a second job that follows
\* a first that succeeded
StartedOnInitialLayer == run = 1 \/ firstOutput.out.result = "success"

\* the switches of render layer made before the traversal
EarlySwitches ==
    {i \in At("SetRenderLayer") : \A j \in At("CreatePrimWriter") : i < j}

\* C26: once _FinishWriting has run to its end or has returned false, the
\* host's current render layer is the one that was current when
\* _BeginWriting started, in each render-layer mode and however many layers
\* _WriteVariants made current; in currentLayer mode the job switches the
\* layer neither before the traversal nor later; in the other modes the one
\* switch before the traversal is to the default layer, made when another
\* layer was current.
C26_LayerRestored ==
    /\ (StartedOnInitialLayer /\ At("FinishWriting") # {} /\ pc = "done") =>
           /\ hostLayer = cfg.initialLayer
           /\ savedLayerName = cfg.initialLayer
    /\ cfg.renderLayerMode = "currentLayer" =>
           /\ EarlySwitches = {}
           /\ At("SetRenderLayer") = {}
           /\ StartedOnInitialLayer => hostLayer = cfg.initialLayer
    /\ (cfg.renderLayerMode # "currentLayer" /\ StartedOnInitialLayer
           /\ At("CreatePrimWriter") # {}) =>
           IF cfg.initialLayer = DefaultRenderLayer
           THEN EarlySwitches = {}
           ELSE \E i \in EarlySwitches :
                    /\ EarlySwitches = {i}
                    /\ log[i].who = << DefaultRenderLayer >>

\* the job started on a layer that is not the default one, switched to the
\* default layer, made two layers current for their variants and switched
\* back
C26_Witness ==
    /\ cfg.initialLayer = LayerName(1)
    /\ cfg.renderLayerMode = "modelingVariant"
    /\ Cardinality(At("AddVariant")) = 2
    /\ Cardinality(FinishSwitches) = 3
    /\ Cardinality(EarlySwitches) = 1
    /\ hostLayer = LayerName(1)
    /\ pc = "done"

---------------------------------------------------------------------------
(* C27 *)

\* a prim the job has made references another prim
HasVariantRoot ==
    \E p \in DOMAIN prims \ DOMAIN StartLayer.prims : prims[p].refs # NoRef

\* C27: _WriteVariants is called only in _FinishWriting, and there exactly
\* when the stage has a root prim, more than one render layer was listed
\* and the override root path is not empty; the render layers are listed
\* only in modelingVariant mode, so that in the other modes no layer is
\* listed, _WriteVariants is not called, no variant is added, and the layer
\* gets neither a variant set nor a prim that references the primary root.
C27_VariantsOnlyInFinish ==
    /\ \A i \in At("WriteVariants") \cup At("AddVariant") :
           /\ \E f \in At("FinishWriting") : f < i
           /\ HadRootPrim
           /\ Len(renderLayerObjs) > 1
           /\ overridePath # << >>
           /\ cfg.renderLayerMode = "modelingVariant"
    /\ (At("FinishWriting") # {} /\ pc = "done" /\ HadRootPrim
           /\ Len(renderLayerObjs) > 1 /\ overridePath # << >>) =>
           Cardinality(At("WriteVariants")) = 1
    /\ At("FinishWriting") = {} => (variantSet = NoVariantSet /\ ~HasVariantRoot)
    /\ cfg.renderLayerMode # "modelingVariant" =>
           /\ renderLayerObjs = << >>
           /\ overridePath = << >>
           /\ At("WriteVariants") \cup At("AddVariant") = {}
           /\ variantSet = NoVariantSet
           /\ ~HasVariantRoot

\* a job in defaultLayer mode on a scene with two render layers has finished
C27_Witness ==
    /\ cfg.renderLayerMode = "defaultLayer"
    /\ Len(cfg.layers) = 2
    /\ result = "success"
    /\ DOMAIN prims # {}
    /\ variantSet = NoVariantSet

---------------------------------------------------------------------------
(* C28 *)

\* the stage as the loop over the render layers sees it when a variant has
\* just been added: no opinion of a variant applies yet
StageInVariant == [LayerNow EXCEPT !.variantSet = NoVariantSet]

\* the prims UsdPrimRange::AllPrims can reach: those without an inactive
\* ancestor
Reachable == {p \in StagePaths(StageInVariant) : IsPopulated(StageInVariant, p)}

\* the output paths of the layer's members, moved under the variant root
MemberPaths(layer, root) ==
    {root \o SubSeq(dagToUsd[ExtendToShape(cfg, m)], 2,
                    Len(dagToUsd[ExtendToShape(cfg, m)])) :
        m \in {m \in cfg.members[layer] : ExtendToShape(cfg, m) \in DOMAIN dagToUsd}}

\* the path is at, above or below a path of the set
Related(p, paths) == \E a \in paths : IsPrefix(a, p) \/ IsPrefix(p, a)

\* D is what the rule deactivates for the member paths
DeactivatedByRule(D, paths) ==
    /\ D \subseteq Reachable
    /\ \A p \in Reachable :
           p \in D <=> /\ IsXformable(StageInVariant, p)
                       /\ ~Related(p, paths)
                       /\ \A k \in 1..(Len(p) - 1) : SubSeq(p, 1, k) \notin D

\* the variant root, the members, what is above and what is below a member
\* are not in D, and nothing in D is below something in D
MembersKept(D, paths, root) ==
    /\ root \notin D
    /\ \A p \in Reachable : Related(p, paths) => p \notin D
    /\ \A p \in D : \A k \in 1..(Len(p) - 1) : SubSeq(p, 1, k) \notin D

\* C28: a variant exists only for a render layer with a mapped member; in
\* it a transformable prim is deactivated exactly when its path is neither
\* at, above nor below a member's path and no prim above it is deactivated;
\* so the variant root, every member, every prim above a member and every
\* prim below a member stay active, and no prim below a deactivated prim is
\* looked at. (Stated for exports that prune no prim afterwards.)
C28_DeactivatedUnlessRelated ==
    (variantSet.exists /\ At("RemovePrim") = {}) =>
        \A root \in VariantRoots :
            \A l \in Range(variantSet.variants) :
                /\ MemberPaths(l, root) # {}
                /\ DeactivatedByRule(variantSet.deactivated[l], MemberPaths(l, root))
                /\ MembersKept(variantSet.deactivated[l], MemberPaths(l, root), root)

\* a variant whose one member is A|B: its sibling is deactivated, A and B
\* are not
C28_Witness ==
    /\ variantSet.exists
    /\ At("RemovePrim") = {}
    /\ pc = "done"
    /\ VariantRoots = {<< "A" >>}
    /\ cfg.members[LayerName(1)] = {<< "A", "B" >>}
    /\ LayerName(1) \in DOMAIN variantSet.deactivated
    /\ << "A", "ns_B" >> \in variantSet.deactivated[LayerName(1)]
    /\ << "A", "B" >> \notin variantSet.deactivated[LayerName(1)]
    /\ << "A" >> \notin variantSet.deactivated[LayerName(1)]

---------------------------------------------------------------------------
(* C29 *)

\* C29: every prim deactivated inside a variant is the variant root or
\* below it; the primary root the variant root references, and what is
\* below it, is deactivated in no variant.
C29_OnlyUnderVariantRoot ==
    variantSet.exists =>
        \A l \in DOMAIN variantSet.deactivated :
            \A p \in variantSet.deactivated[l] :
                /\ \E root \in VariantRoots : IsPrefix(root, p)
                /\ \A root \in VariantRoots : ~IsPrefix(prims[root].refs, p)

---------------------------------------------------------------------------
(* C30 *)

\* the members of the render layer that have an output path
MappedMembers(layer) ==
    {m \in cfg.members[layer] : ExtendToShape(cfg, m) \in DOMAIN dagToUsd}

\* the render layers with a mapped member, in the order they were listed
LayersWithMembers == SelectSeq(renderLayerObjs, LAMBDA l : MappedMembers(l) # {})

\* C30: once _WriteVariants has run, the variants added are those of the
\* render layers with a mapped member, one each, named after the layer, in
\* the order of the layers, and a layer without mapped member has none; the
\* variant set exists exactly when some layer has a mapped member; whether
\* or not it exists, there is one variant root, active, which references the
\* primary root, and the primary root is deactivated.
C30_VariantPerLayerWithMembers ==
    At("WriteVariants") # {} =>
        /\ HookCalls("AddVariant", DefaultTime) = LayersWithMembers
        /\ variantSet.variants = LayersWithMembers
        /\ DOMAIN variantSet.deactivated = Range(LayersWithMembers)
        /\ variantSet.exists <=> LayersWithMembers # << >>
        /\ \A l \in Range(renderLayerObjs) :
               MappedMembers(l) = {} => l \notin Range(variantSet.variants)
        /\ Cardinality(VariantRoots) = 1
        /\ \A root \in VariantRoots :
               /\ prims[root].active
               /\ prims[root].refs \in DOMAIN prims
               /\ ~prims[prims[root].refs].active

\* of two render layers only the second has a mapped member
C30_Witness ==
    /\ Len(renderLayerObjs) = 2
    /\ MappedMembers(renderLayerObjs[1]) = {}
    /\ cfg.members[renderLayerObjs[1]] # {}
    /\ variantSet.variants = << renderLayerObjs[2] >>
    /\ VariantRoots # {}
    /\ pc = "done"

---------------------------------------------------------------------------
(* C31 *)

\* C31: when _WriteVariants has run and the variant set exists, the
\* selection of the set is the name of one of the variants added to it.
C31_SelectionAmongVariants ==
    (At("WriteVariants") # {} /\ pc = "done" /\ variantSet.exists) =>
        variantSet.selection \in Range(variantSet.variants)

---------------------------------------------------------------------------
(* C32 *)

\* C32: the prim whose name _FinishWriting has set as the layer's default
\* prim, from mArgs.defaultPrim or from the first root prim or the variant
\* root, is not removed by _PruneEmpties.
C32_DefaultRootNotPruned ==
    \A d \in At("SetDefaultPrim") :
        \A i \in At("RemovePrim") : log[i].who # log[d].who

---------------------------------------------------------------------------
(* C33 *)

\* the calls of removeEmptyPrims, one for each round of the loop
Rounds == At("removeEmptyPrims")

\* the calls of RemovePrim of the round begun at position r of the log
RemovalsOf(r) ==
    {i \in At("RemovePrim") : r < i /\ \A q \in Rounds : (r < q) => (i < q)}

\* the round that follows the round begun at r, if there is one
NextRound(r) == {q \in Rounds : r < q /\ \A x \in Rounds : (r < x) => (q <= x)}

\* the paths RemovePrim was called for
Removed == {log[i].who : i \in At("RemovePrim")}

---------------------------------------------------------------------------
(* C34 *)

\* the paths the writers defined a prim at
WrittenPaths == {dagToUsd[n] : n \in DOMAIN dagToUsd}

\* the prims the layer held before it was pruned: those of the layer the
\* job started from, those of the writers and their ancestors
Known ==
    DOMAIN StartLayer.prims
    \cup UNION {{SubSeq(p, 1, k) : k \in 1..Len(p)} : p \in WrittenPaths}

\* what a known prim was before the pruning: pruning changes no field
KnownSpec(p) ==
    IF p \in DOMAIN prims THEN prims[p]
    ELSE IF \E n \in DOMAIN dagToUsd : dagToUsd[n] = p /\ IsShape(n) THEN NewPrim("Mesh")
    ELSE IF p \in WrittenPaths THEN NewPrim("Xform")
    ELSE IF p \in DOMAIN StartLayer.prims THEN StartLayer.prims[p]
    ELSE NewPrim("")

\* the layer's prim that stands behind a path of the stage
Origin(p) == IF p \in Known THEN p ELSE RefSource(Job, p)

\* RemovePrim was called on q before the i-th event
GoneBefore(i, q) == \E j \in At("RemovePrim") : j < i /\ log[j].who = q

\* C34: every prim RemovePrim is called on is, at that moment, an Xform or a
\* Scope without child, payload or reference (its children, if it had any,
\* were removed before it); a prim of another type, with a payload or with
\* a reference stays in the layer; when empty transforms are kept, the job
\* does not prune at all.
C34_OnlyEmptyContainersPruned ==
    /\ cfg.includeEmptyTransforms =>
           At("PruneEmpties") \cup Rounds \cup At("RemovePrim") = {}
    /\ \A i \in At("RemovePrim") :
           LET o == Origin(log[i].who)
           IN  /\ KnownSpec(o).type \in {"Xform", "Scope"}
               /\ ~KnownSpec(o).payload
               /\ KnownSpec(o).refs = NoRef
               /\ \A q \in Known :
                      (Len(q) = Len(o) + 1 /\ IsPrefix(o, q)) => GoneBefore(i, q)
    /\ At("PruneEmpties") # {} =>
           \A q \in Known :
               (\/ KnownSpec(q).type \notin {"Xform", "Scope"}
                \/ KnownSpec(q).payload
                \/ KnownSpec(q).refs # NoRef) => q \in DOMAIN prims

\* an appending job has removed the old layer's empty Xform and an empty
\* group of the scene, and has kept the old prims with a payload, with a
\* reference, of type Mesh and with a child
C34_Witness ==
    /\ pc = "done"
    /\ cfg.append
    /\ << "Old" >> \in Removed
    /\ Removed \cap WrittenPaths # {}
    /\ {<< "OldPayload" >>, << "OldRef" >>, << "OldMesh" >>, << "OldGroup" >>,
        << "OldGroup", "OldLeaf" >>} \subseteq DOMAIN prims

---------------------------------------------------------------------------
(* C35 *)

\* the nodes whose default values a writer has written
WrittenAtDefault == {log[i].who : i \in {i \in At("Write") : log[i].t = DefaultTime}}

\* C35: within one job no entry of the map from nodes to paths is changed
\* or removed, and only _BeginWriting adds entries, one for a node whose
\* writer wrote its default values in the traversal: a frame and
\* _FinishWriting (variants, chasers' hooks, pruning, saving) leave the map
\* as it is. MapDagPathToSdfPath gives a mapped node its path and any other
\* node the empty path.
C35_MappingGrowsInBeginOnly ==
    [][pc' # "begin" =>
          /\ \A n \in DOMAIN dagToUsd :
                 MapDagPathToSdfPath(Job, n) = MapDagPathToSdfPath(Job, n)' /\ n \in DOMAIN dagToUsd'
          /\ pc # "begin" => dagToUsd' = dagToUsd
          /\ DOMAIN dagToUsd' \subseteq WrittenAtDefault'
          /\ \A n \in SceneNodes(cfg) \cup {World} :
                 IF n \in DOMAIN dagToUsd'
                 THEN MapDagPathToSdfPath(Job, n)' = dagToUsd'[n] /\ dagToUsd'[n] # << >>
                 ELSE MapDagPathToSdfPath(Job, n)' = << >>]_vars

\* a job with a frame, variants, chasers and pruning has returned; a node
\* with a writer is mapped and the parent of a pruned subtree's nodes is not
C35_Witness ==
    /\ pc = "done"
    /\ result = "success"
    /\ At("WriteFrame") # {} /\ At("AddVariant") # {} /\ At("PostExport") # {}
    /\ At("RemovePrim") # {} /\ At("Save") # {}
    /\ dagToUsd # EmptyMap
    /\ \E n \in SceneNodes(cfg) : MapDagPathToSdfPath(Job, n) = << >>

---------------------------------------------------------------------------
(* C36 *)

\* _BeginWriting has got as far as line 469: the name of the layer to write
\* is chosen
NameChosen ==
    /\ pc # "begin"
    /\ ~RootsOverlap(cfg)
    /\ fileName # NoFile
    /\ EffectiveExtension(cfg, cfg.dest) = UsdFileExtensionPackage => packageName # NoFile

\* modelingVariant mode with more than one render layer
ManyLayerVariants == cfg.renderLayerMode = "modelingVariant" /\ Len(cfg.layers) > 1

\* C36: in modelingVariant mode with more than one render layer, a job with
\* a root-map function returns false from _BeginWriting without having
\* opened the layer, and a job without one has the override root path
\* /_BaseModel_ by the time it opens the layer, whether or not the opening
\* succeeds, and writes every prim below it. With one render layer, or in
\* another mode, the override root path is left alone and the job goes on
\* to open the layer, root-map function or not.
C36_VariantsAgainstRootMap ==
    /\ (NameChosen /\ ManyLayerVariants /\ cfg.rootMap) =>
           /\ ReturnedFalse("BeginWriting")
           /\ At("OpenFile") = {}
           /\ ~stageOpen /\ prims = EmptyMap
           /\ result = "failure"
    /\ (NameChosen /\ ManyLayerVariants /\ ~cfg.rootMap) =>
           /\ At("OpenFile") # {}
           /\ overridePath = BaseModelPath
           /\ \A n \in DOMAIN dagToUsd : IsPrefix(BaseModelPath, dagToUsd[n])
    /\ (NameChosen /\ ~ManyLayerVariants) =>
           /\ At("OpenFile") # {}
           /\ overridePath = << >>
    /\ ~NameChosen => At("OpenFile") = {}

\* a job with a root-map function and two render layers has returned false
C36_Witness ==
    /\ NameChosen /\ ManyLayerVariants /\ cfg.rootMap
    /\ pc = "done"

---------------------------------------------------------------------------
(* C37 *)

\* C37: in a job with time samples whose _BeginWriting succeeded, the loop
\* over the samples moves the host's time to each sample it reaches, and
\* once the loop is left (a frame failed, the user cancelled, or the last
\* sample is written) the host's time is again what it was before the
\* loop: the last call of viewFrame was with that time, and
\* _FinishWriting does not move it.
C37_TimeSetBack ==
    (cfg.timeSamples # << >> /\ pc # "begin" /\ ~ReturnedFalse("BeginWriting")) =>
        /\ oldCurTime = InitialTime
        /\ oldCurTime \notin Range(cfg.timeSamples)
        /\ pc = "frames" =>
               /\ TimesOf("viewFrame") = SubSeq(cfg.timeSamples, 1, frameIdx)
               /\ frameIdx > 0 => hostTime = cfg.timeSamples[frameIdx]
        /\ pc \in {"finish", "done"} =>
               /\ frameIdx > 0
               /\ TimesOf("viewFrame") = Append(SubSeq(cfg.timeSamples, 1, frameIdx), oldCurTime)
               /\ hostTime = oldCurTime

\* the second frame of a job has failed and Write has returned false
C37_Witness ==
    /\ pc = "done"
    /\ ReturnedFalse("WriteFrame")
    /\ frameIdx = 2
    /\ hostTime = InitialTime

---------------------------------------------------------------------------
(* C38 *)

\* the operations of the log from the i-th event on
OpsFrom(i) == [k \in 1..(Len(log) - i + 1) |-> log[k + i - 1].op]

\* C38: a job that has reached _CreatePackage returns true from
\* _FinishWriting and from Write whether the package was made or not. In
\* both cases the stage and the writers are released after the packaging
\* and the temporary flat file is deleted after that; when the packaging
\* failed, the destination is as it was before the job (no package was
\* made), and when it succeeded the destination holds the package.
C38_PackagingIgnored ==
    (pc = "done" /\ At("CreatePackage") # {}) =>
        /\ result = "success"
        /\ At("ReturnFalse") = {}
        /\ ~stageOpen /\ writers = << >>
        /\ fileName # Destination /\ fileName \notin DOMAIN files
        /\ \A i \in At("CreatePackage") :
               OpsFrom(i) = IF At("PackageError") # {}
                            THEN << "CreatePackage", "PackageError", "ReleaseStage",
                                    "DeleteFile" >>
                            ELSE << "CreatePackage", "ReleaseStage", "DeleteFile" >>
        /\ IF At("PackageError") # {}
           THEN IF Destination \in DOMAIN files
                THEN files[Destination] = FilesAtStart(Destination)
                ELSE FilesAtStart(Destination) = NoOutput
           ELSE Destination \in DOMAIN files /\ files[Destination].package

\* the packaging has failed and Write has returned true, no file being at
\* the destination
C38_Witness ==
    /\ pc = "done"
    /\ At("PackageError") # {}
    /\ At("Save") # {}
    /\ result = "success"
    /\ Destination \notin DOMAIN files

---------------------------------------------------------------------------
(* C39 *)

\* the nodes CreatePrimWriter has produced a writer without a valid prim for
InvalidWriters == {n \in cfg.invalidPrim : HasWriter(cfg, n) /\ Offers(n) > 0}

\* C39: a writer whose prim is not valid is in the writer list as long as
\* the list is kept, and the nodes below its node are not visited when it
\* asks for that; its path is not checked for a clash, nothing is written
\* for it at the default time or at a frame, the model-kind processor is
\* not told of it, and its node is in neither of the two maps; when
\* _FinishWriting has run, its PostExport was called, once.
C39_WriterWithoutPrim ==
    \A n \in InvalidWriters :
        /\ WritersKept => Cardinality({i \in DOMAIN writers : writers[i] = n}) = 1
        /\ n \in cfg.pruneChildren =>
               \A m \in SceneNodes(cfg) : (IsPrefix(n, m) /\ m # n) => Offers(m) = 0
        /\ \A i \in DOMAIN log :
               log[i].who = n => log[i].op \in {"CreatePrimWriter", "WriterPostExport"}
        /\ n \notin DOMAIN dagToUsd
        /\ n \notin Range(usdToDag)
        /\ (pc = "done" /\ At("FinishWriting") # {}) =>
               Cardinality({i \in At("WriterPostExport") : log[i].who = n}) = 1

\* a job has returned true; a writer without a valid prim asked for its
\* node's children to be pruned, the node has a child in the scene, and
\* another writer wrote a frame
C39_Witness ==
    /\ pc = "done"
    /\ result = "success"
    /\ \E n \in InvalidWriters :
           /\ n \in cfg.pruneChildren
           /\ Children(cfg, n) # {}
    /\ \E i \in At("Write") : log[i].t # DefaultTime

---------------------------------------------------------------------------
(* C40 *)

\* the matrix ops of the called item's stack that have the wanted name
MatchingOps ==
    {k \in DOMAIN edit.item.xformOps :
        /\ edit.item.xformOps[k].type = "transform"
        /\ edit.opName # "" => edit.item.xformOps[k].name = edit.opName}

\* the handler edits the item itself: a USD item, a matching matrix op, only
\* matrix ops after the first matching one, and a hint that is not a pivot's
HandlesItself ==
    /\ edit.item.usd
    /\ \E k \in MatchingOps :
           /\ \A j \in MatchingOps : k <= j
           /\ \A j \in DOMAIN edit.item.xformOps :
                  j >= k => edit.item.xformOps[j].type = "transform"
    /\ edit.hint \notin {"RotatePivot", "ScalePivot"}

\* C40: a call of editTransform3d that has returned gave a matrix-op
\* interface exactly when the handler edits the item itself, and then for
\* the first matching matrix op, the next handler not being asked; for an
\* item that is not a USD item it gave null and did not ask the next
\* handler; in every other case it asked the next handler once, with the
\* same item and hint, and gave what that handler gave, or gave null when
\* there is no next handler.
C40_EditTransform3d ==
    (~edit.pending /\ edit # NoEdit) =>
        /\ edit.returned.value.kind = "matrixOp" <=> HandlesItself
        /\ HandlesItself =>
               /\ edit.returned.value.item = edit.item
               /\ edit.returned.value.op \in MatchingOps
               /\ \A j \in MatchingOps : edit.returned.value.op <= j
               /\ edit.returned.asked = << >>
        /\ ~edit.item.usd =>
               edit.returned = [value |-> [kind |-> "null"], asked |-> << >>]
        /\ (edit.item.usd /\ ~HandlesItself) =>
               IF edit.nextHandler = ""
               THEN edit.returned = [value |-> [kind |-> "null"], asked |-> << >>]
               ELSE /\ edit.returned.asked =
                           << [handler |-> edit.nextHandler, item |-> edit.item,
                               hint |-> edit.hint] >>
                    /\ edit.returned.value =
                           IF edit.nextHandler = "unable" THEN [kind |-> "null"]
                           ELSE [kind |-> edit.nextHandler, item |-> edit.item,
                                 hint |-> edit.hint]

\* a call has returned the interface of the second op of a stack of three
\* matrix ops, the first of which has another name than the wanted one
C40_Witness ==
    /\ ~edit.pending /\ edit # NoEdit
    /\ Len(edit.item.xformOps) = 3
    /\ edit.opName # ""
    /\ edit.returned.value.kind = "matrixOp"
    /\ edit.returned.value.op = 2

=============================================================================
